---- MODULE Spec2Model ----
(***************************************************************************)
(* Model of the nfl-stats query core: the stat aggregator                  *)
(* (nfl_stats/logic.py), the threshold filter (nfl_stats/filters.py), the  *)
(* intent extractor (nfl_stats/parser.py), entity resolution               *)
(* (nfl_stats/search.py) and the dispatcher (nfl_stats/main.py).           *)
(*                                                                         *)
(* Text is modelled as TLA+ strings handled character by character         *)
(* (Len, SubSeq, \o), so that str.replace, float(), f-string formatting    *)
(* and str.split are computed rather than assumed.  Numbers are exact      *)
(* rationals [n, d] in lowest terms; the rounding of Python floats is not  *)
(* modelled.                                                               *)
(***************************************************************************)
EXTENDS Integers, Sequences, FiniteSets, TLC

VARIABLES
    pc,              \* position of the running operation
    games,           \* input: list of games, each the list of its 'stats' cells
    headers,         \* input: list of header labels
    unique_headers,  \* aggregate_stats: deduplicated labels
    sums,            \* aggregate_stats: running sum per deduplicated label
    maxes,           \* aggregate_stats: running max per deduplicated label
    counts,          \* aggregate_stats: parsed cells per deduplicated label
    gi,              \* number of games the running loop has consumed
    result,          \* value returned by the operation
    threshold_stat,  \* threshold filter: canonical stat name
    threshold_value, \* threshold filter: minimum value
    position,        \* threshold filter: the player's position ("None": absent)
    count,           \* count_games_meeting_threshold: running count
    query,           \* parse_query: the residual text
    intent,          \* parse_query: the Intent under construction
    now,             \* parse_query: the date datetime.now() returns
    players,         \* the players directory load_players() returns
    wratio,          \* fuzz.WRatio of the text under resolution, per name
    matched,         \* search_player: matched_players
    entity,          \* value returned by identify_entity
    names,           \* process_query: player_names of a comparison
    resolved,        \* process_query: players of a comparison
    branch,          \* process_query: the branch that answered the query
    season,          \* career block: current_year, the requested season
    rookie_season,   \* career block: the player's rookie season (0: None)
    use_spinner,     \* process_query: whether the status spinner is shown
    provider,        \* what get_player_gamelog returns, by parity of the year
    years_to_check,  \* career block: the seasons of the loop
    calls,           \* career block: the seasons asked of the provider so far
    outstanding,     \* provider calls issued and not yet answered
    gamelog,         \* career block: the last process_player_gamelog result
    all_games,       \* career block: the games accumulated so far
    last_headers,    \* career block: the headers of the last season with any
    outcome          \* career block: how process_query ended

aggVars == <<unique_headers, sums, maxes, counts>>
thrVars == <<threshold_stat, threshold_value, position, count>>
parseVars == <<query, intent, now>>
searchVars == <<players, wratio, matched, entity>>
mainVars == <<names, resolved, branch>>
careerVars == <<season, rookie_season, use_spinner, provider, years_to_check,
                calls, outstanding, gamelog, all_games, last_headers, outcome>>
vars == <<pc, games, headers, unique_headers, sums, maxes, counts, gi, result,
          threshold_stat, threshold_value, position, count, query, intent, now,
          players, wratio, matched, entity, names, resolved, branch,
          season, rookie_season, use_spinner, provider, years_to_check,
          calls, outstanding, gamelog, all_games, last_headers, outcome>>

\* the resolver and the dispatcher at rest
SearchIdle ==
    /\ players = << >>
    /\ wratio = << >>
    /\ matched = << >>
    /\ entity = <<"None", 0>>

MainIdle ==
    /\ names = << >>
    /\ resolved = << >>
    /\ branch = [path |-> "None", aggregated |-> FALSE]

\* the result of process_player_gamelog before any call
NoGamelog == [empty |-> TRUE, headers |-> << >>, games |-> << >>]

CareerIdle ==
    /\ season = 0
    /\ rookie_season = 0
    /\ use_spinner = TRUE
    /\ provider = << >>
    /\ years_to_check = << >>
    /\ calls = << >>
    /\ outstanding = 0
    /\ gamelog = NoGamelog
    /\ all_games = << >>
    /\ last_headers = << >>
    /\ outcome = "None"

(***************************************************************************)
(* Bounds of the model.                                                    *)
(***************************************************************************)
MaxGames == 3

(***************************************************************************)
(* Strings.                                                                *)
(***************************************************************************)
Ch(s, i) == SubSeq(s, i, i)

Digits == {"0", "1", "2", "3", "4", "5", "6", "7", "8", "9"}

DigitOf(c) ==
    CASE c = "0" -> 0 [] c = "1" -> 1 [] c = "2" -> 2 [] c = "3" -> 3
      [] c = "4" -> 4 [] c = "5" -> 5 [] c = "6" -> 6 [] c = "7" -> 7
      [] c = "8" -> 8 [] c = "9" -> 9

DigitChar(k) ==
    CASE k = 0 -> "0" [] k = 1 -> "1" [] k = 2 -> "2" [] k = 3 -> "3"
      [] k = 4 -> "4" [] k = 5 -> "5" [] k = 6 -> "6" [] k = 7 -> "7"
      [] k = 8 -> "8" [] k = 9 -> "9"

AllDigits(s) == \A i \in 1..Len(s) : Ch(s, i) \in Digits

\* value of a string of decimal digits ("" is 0)
RECURSIVE DigitsVal(_)
DigitsVal(s) ==
    IF Len(s) = 0 THEN 0
    ELSE 10 * DigitsVal(SubSeq(s, 1, Len(s) - 1)) + DigitOf(Ch(s, Len(s)))

\* str(n) for a natural number n
RECURSIVE IntToStr(_)
IntToStr(n) ==
    IF n < 10 THEN DigitChar(n) ELSE IntToStr(n \div 10) \o DigitChar(n % 10)

RECURSIVE Pow10(_)
Pow10(k) == IF k = 0 THEN 1 ELSE 10 * Pow10(k - 1)

\* the least element of a non-empty set of integers
Least(xs) == CHOOSE x \in xs : \A y \in xs : x <= y

\* the least element of a set of positive integers, 0 when it is empty
LeastOrZero(xs) == IF xs = {} THEN 0 ELSE Least(xs)

\* the greatest element of a set of positive integers, 0 when it is empty
GreatestOrZero(xs) ==
    IF xs = {} THEN 0 ELSE CHOOSE x \in xs : \A y \in xs : x >= y

\* the first of the indices lo..hi that passes the test, 0 when none does
FirstIndex(lo, hi, Test(_)) == LeastOrZero({k \in lo..hi : Test(k)})

\* the offsets of s at which old occurs
Occurrences(s, old) ==
    {i \in 0..(Len(s) - Len(old)) : SubSeq(s, i + 1, i + Len(old)) = old}

\* str.replace(old, new): every non-overlapping occurrence, left to right;
\* next are the occurrences at or after the offset i
RECURSIVE ReplaceFrom(_, _, _, _, _)
ReplaceNext(next, occ, s, old, new, i) ==
    IF next = {} THEN SubSeq(s, i + 1, Len(s))
    ELSE SubSeq(s, i + 1, Least(next)) \o new
            \o ReplaceFrom(occ, s, old, new, Least(next) + Len(old))

ReplaceFrom(occ, s, old, new, i) ==
    ReplaceNext({h \in occ : h >= i}, occ, s, old, new, i)

Replace(s, old, new) == ReplaceFrom(Occurrences(s, old), s, old, new, 0)

\* index of the first occurrence of the character c in s, 0 when absent
FindChar(s, c, i) == FirstIndex(i, Len(s), LAMBDA k : Ch(s, k) = c)

\* str.strip() for the blank character
RECURSIVE LStrip(_)
LStrip(s) == IF Len(s) > 0 /\ Ch(s, 1) = " " THEN LStrip(Tail(s)) ELSE s

RECURSIVE RStrip(_)
RStrip(s) ==
    IF Len(s) > 0 /\ Ch(s, Len(s)) = " "
    THEN RStrip(SubSeq(s, 1, Len(s) - 1)) ELSE s

Strip(s) == LStrip(RStrip(s))

\* h.split('.')[0]
SplitDotFirst(h) ==
    LET p == FindChar(h, ".", 1) IN IF p = 0 THEN h ELSE SubSeq(h, 1, p - 1)

(***************************************************************************)
(* Exact rationals.                                                        *)
(***************************************************************************)
Abs(x) == IF x < 0 THEN -x ELSE x

RECURSIVE GCD(_, _)
GCD(a, b) == IF b = 0 THEN a ELSE GCD(b, a % b)

Frac(n, d) ==
    LET g == GCD(Abs(n), d) IN [n |-> n \div g, d |-> d \div g]

FZero == [n |-> 0, d |-> 1]
FInt(k) == [n |-> k, d |-> 1]
FAdd(a, b) == Frac(a.n * b.d + b.n * a.d, a.d * b.d)
FDivInt(a, k) == Frac(a.n, a.d * k)
FGt(a, b) == a.n * b.d > b.n * a.d
FGe(a, b) == a.n * b.d >= b.n * a.d

(***************************************************************************)
(* float(str): optional blanks, optional sign, decimal digits with an      *)
(* optional point.  Exponents, inf, nan and digit-group underscores are    *)
(* outside the cell alphabet of the model.                                 *)
(***************************************************************************)
ParseUnsigned(b) ==
    LET p == FindChar(b, ".", 1)
        ip == IF p = 0 THEN b ELSE SubSeq(b, 1, p - 1)
        fp == IF p = 0 THEN "" ELSE SubSeq(b, p + 1, Len(b))
    IN IF AllDigits(ip) /\ AllDigits(fp) /\ Len(ip) + Len(fp) > 0
       THEN [ok |-> TRUE,
             val |-> Frac(DigitsVal(ip) * Pow10(Len(fp)) + DigitsVal(fp),
                          Pow10(Len(fp)))]
       ELSE [ok |-> FALSE, val |-> FZero]

ParseFloat(s) ==
    LET t == Strip(s)
        neg == Len(t) > 0 /\ Ch(t, 1) = "-"
        signed == Len(t) > 0 /\ Ch(t, 1) \in {"-", "+"}
        u == ParseUnsigned(IF signed THEN Tail(t) ELSE t)
    IN IF u.ok /\ neg THEN [ok |-> TRUE, val |-> Frac(-u.val.n, u.val.d)]
       ELSE u

\* float(str(val).replace(',', '').replace('--', '0'))
CleanCell(val) == ParseFloat(Replace(Replace(val, ",", ""), "--", "0"))

(***************************************************************************)
(* Inputs of the aggregator and of the threshold filter.                   *)
(***************************************************************************)
Range(f) == {f[i] : i \in DOMAIN f}

\* the 'stats' lists a game can carry: full, short, over-long and empty
\* rows, with thousands separators, the no-data token, a negative value and
\* a cell that is not a number
Rows ==
    { <<"12", "80.0", "3">>,
      <<"45", "90.0">>,
      <<"3", "x", "1,200", "7">>,
      <<"--", "-3">>,
      <<"-3", "--", "x">>,
      <<"x">>,
      << >> }

GameLists == UNION {[1..n -> Rows] : n \in 0..MaxGames}

HeaderLists ==
    { << >>,
      <<"Yds", "TD", "Yds">>,
      <<"Rate">>,
      <<"Lng">>,
      <<"Lng", "Rate", "TD">>,
      <<"Avg", "Avg", "Long">>,
      <<"Yds/A", "Pct">>,
      <<"Yds", "Yds", "Yds.1">> }

(***************************************************************************)
(* aggregate_stats (logic.py).                                             *)
(***************************************************************************)
RateHeaders == {"Avg", "Rate", "Pct", "Yds/A", "Avg/R"}
LongestHeaders == {"Lng", "Long"}

EmptyFn == [h \in {} |-> FZero]

\* DedupStep with the suffix taken from the count before its increment
DedupStepStaleCount(h, st) ==
    IF h \in DOMAIN st.header_counts
    THEN LET n == st.header_counts[h]
         IN [header_counts |-> (h :> n + 1) @@ st.header_counts,
             unique_headers |-> Append(st.unique_headers, h \o "." \o IntToStr(n))]
    ELSE [header_counts |-> (h :> 0) @@ st.header_counts,
          unique_headers |-> Append(st.unique_headers, h)]

\* one iteration of the header deduplication loop
DedupStep(h, st) ==
    IF h \in DOMAIN st.header_counts
    THEN LET n == st.header_counts[h] + 1
         IN [header_counts |-> (h :> n) @@ st.header_counts,
             unique_headers |-> Append(st.unique_headers, h \o "." \o IntToStr(n))]
    ELSE [header_counts |-> (h :> 0) @@ st.header_counts,
          unique_headers |-> Append(st.unique_headers, h)]

RECURSIVE DedupLoop(_, _, _)
DedupLoop(hs, i, st) ==
    IF i > Len(hs) THEN st ELSE DedupLoop(hs, i + 1, DedupStep(hs[i], st))

Dedup(hs) ==
    DedupLoop(hs, 1, [header_counts |-> EmptyFn, unique_headers |-> << >>]).unique_headers

\* CellStep that books a cell that fails to parse as a zero
CellStepZeroOnError(acc, uh, i, val) ==
    IF i <= Len(uh)
    THEN LET header == uh[i]
             f == CleanCell(val)
         IN [sums |-> [acc.sums EXCEPT ![header] = FAdd(@, f.val)],
             maxes |-> [acc.maxes EXCEPT
                           ![header] = IF FGt(f.val, @) THEN f.val ELSE @],
             counts |-> [acc.counts EXCEPT ![header] = @ + 1]]
    ELSE acc

\* the body of "for i, val in enumerate(stats)"
CellStep(acc, uh, i, val) ==
    IF i <= Len(uh)
    THEN LET header == uh[i]
             f == CleanCell(val)
         IN IF f.ok
            THEN [sums |-> [acc.sums EXCEPT ![header] = FAdd(@, f.val)],
                  maxes |-> [acc.maxes EXCEPT
                                ![header] = IF FGt(f.val, @) THEN f.val ELSE @],
                  counts |-> [acc.counts EXCEPT ![header] = @ + 1]]
            ELSE acc
    ELSE acc

RECURSIVE CellLoop(_, _, _, _)
CellLoop(acc, uh, stats, i) ==
    IF i > Len(stats) THEN acc
    ELSE CellLoop(CellStep(acc, uh, i, stats[i]), uh, stats, i + 1)

\* InitialAverages dividing by the number of parsed cells
InitialAveragesByCount(uh, sm, cn, game_count) ==
    [h \in {u \in Range(uh) : cn[u] > 0} |-> FDivInt(sm[h], cn[h])]

\* averages[h] = sums[h] / game_count for the headers that parsed a cell
InitialAverages(uh, sm, cn, game_count) ==
    [h \in {u \in Range(uh) : cn[u] > 0} |-> FDivInt(sm[h], game_count)]

Get(d, k, default) == IF k \in DOMAIN d THEN d[k] ELSE default

\* one iteration of the "fix totals for non-summable stats" loop
DeriveStep(st, h, mx) ==
    LET base_header == SplitDotFirst(h)
    IN IF base_header \in RateHeaders
       THEN [averages |-> st.averages,
             totals |-> [st.totals EXCEPT ![h] = Get(st.averages, h, FZero)]]
       ELSE IF base_header \in LongestHeaders
       THEN [averages |-> (h :> mx[h]) @@ st.averages,
             totals |-> [st.totals EXCEPT ![h] = mx[h]]]
       ELSE st

RECURSIVE DeriveLoop(_, _, _, _)
DeriveLoop(st, uh, mx, i) ==
    IF i > Len(uh) THEN st
    ELSE DeriveLoop(DeriveStep(st, uh[i], mx), uh, mx, i + 1)

\* value of the parser's variables while another operation runs
NoIntent == [original_query |-> ""]
NoClock == [year |-> 0, month |-> 0]

NoResult == [empty |-> TRUE, averages |-> EmptyFn, totals |-> EmptyFn,
             game_count |-> 0, headers |-> << >>]

\* entry: the empty-input early return, deduplication, initial dictionaries
AggStart ==
    /\ pc = "agg_start"
    /\ IF games = << >> \/ headers = << >>
       THEN /\ pc' = "agg_done"
            /\ result' = NoResult
            /\ UNCHANGED aggVars
       ELSE LET uh == Dedup(headers)
            IN /\ unique_headers' = uh
               /\ sums' = [h \in Range(uh) |-> FZero]
               /\ maxes' = [h \in Range(uh) |-> FZero]
               /\ counts' = [h \in Range(uh) |-> 0]
               /\ pc' = "agg_accumulate"
               /\ UNCHANGED result
    /\ UNCHANGED <<games, headers, gi, thrVars, parseVars, searchVars, mainVars, careerVars>>

\* one iteration of "for game in games"
AggGame ==
    /\ pc = "agg_accumulate"
    /\ gi < Len(games)
    /\ LET acc == CellLoop([sums |-> sums, maxes |-> maxes, counts |-> counts],
                           unique_headers, games[gi + 1], 1)
       IN /\ sums' = acc.sums
          /\ maxes' = acc.maxes
          /\ counts' = acc.counts
    /\ gi' = gi + 1
    /\ UNCHANGED <<pc, games, headers, unique_headers, result, thrVars, parseVars,
                   searchVars, mainVars, careerVars>>

\* averages, totals and the returned dictionary
AggDerive ==
    /\ pc = "agg_accumulate"
    /\ gi = Len(games)
    /\ LET game_count == Len(games)
           st == DeriveLoop([averages |-> InitialAverages(unique_headers, sums,
                                                          counts, game_count),
                             totals |-> sums],
                            unique_headers, maxes, 1)
       IN result' = [empty |-> FALSE, averages |-> st.averages,
                     totals |-> st.totals, game_count |-> game_count,
                     headers |-> unique_headers]
    /\ pc' = "agg_done"
    /\ UNCHANGED <<games, headers, gi, aggVars, thrVars, parseVars, searchVars,
                   mainVars, careerVars>>

InitAgg ==
    /\ pc = "agg_start"
    /\ games \in GameLists
    /\ headers \in HeaderLists
    /\ unique_headers = << >>
    /\ sums = EmptyFn
    /\ maxes = EmptyFn
    /\ counts = EmptyFn
    /\ gi = 0
    /\ result = NoResult
    /\ threshold_stat = ""
    /\ threshold_value = 0
    /\ position = "None"
    /\ count = 0
    /\ query = ""
    /\ intent = NoIntent
    /\ now = NoClock
    /\ SearchIdle
    /\ MainIdle
    /\ CareerIdle

NextAgg == AggStart \/ AggGame \/ AggDerive

SpecAgg == InitAgg /\ [][NextAgg]_vars

(***************************************************************************)
(* Reference quantities of the aggregator, computed from the inputs only.  *)
(***************************************************************************)
\* number of earlier occurrences of the i-th label
PriorCount(hs, i) == Cardinality({j \in 1..(i - 1) : hs[j] = hs[i]})

ExpectedUnique(hs) ==
    [i \in 1..Len(hs) |->
        IF PriorCount(hs, i) = 0 THEN hs[i]
        ELSE hs[i] \o "." \o IntToStr(PriorCount(hs, i))]

\* the cells <<game, column>> of the first k games that lie under the
\* deduplicated label h and parse as a number
NumericCells(h, k) ==
    {c \in UNION {{<<g, i>> : i \in 1..Len(games[g])} : g \in 1..k} :
        /\ c[2] <= Len(headers)
        /\ ExpectedUnique(headers)[c[2]] = h
        /\ CleanCell(games[c[1]][c[2]]).ok}

CellValue(c) == CleanCell(games[c[1]][c[2]]).val

RECURSIVE SumCells(_)
SumCells(S) ==
    IF S = {} THEN FZero
    ELSE LET c == CHOOSE x \in S : TRUE
         IN FAdd(CellValue(c), SumCells(S \ {c}))

\* the largest value among a non-empty set of cells
MaxCell(S) ==
    CellValue(CHOOSE c \in S : \A o \in S : FGe(CellValue(c), CellValue(o)))

GamesWithData(h, k) == {c[1] : c \in NumericCells(h, k)}

BaseLabel(h) == SplitDotFirst(h)
IsRate(h) == BaseLabel(h) \in RateHeaders
IsLongest(h) == BaseLabel(h) \in LongestHeaders
Returned == pc = "agg_done" /\ ~result.empty

(***************************************************************************)
(* C1: header deduplication keeps the first occurrence of a label and      *)
(* turns its n-th repeat into label.n; the returned list has the length    *)
(* and order of the input, and ["Yds","TD","Yds"] gives                    *)
(* ["Yds","TD","Yds.1"].                                                   *)
(***************************************************************************)
C1_Dedup ==
    Returned =>
        /\ Len(result.headers) = Len(headers)
        /\ result.headers = ExpectedUnique(headers)
        /\ headers = <<"Yds", "TD", "Yds">>
              => result.headers = <<"Yds", "TD", "Yds.1">>

C1_Witness ==
    /\ Returned
    /\ headers = <<"Yds", "TD", "Yds">>
    /\ result.headers = <<"Yds", "TD", "Yds.1">>

(***************************************************************************)
(* C2: an ordinary header with numeric cells in M of the N games           *)
(* (1 <= M <= N) has average = sum / N and total = sum; game_count is N.   *)
(***************************************************************************)
C2_AverageOverAllGames ==
    Returned =>
        /\ result.game_count = Len(games)
        /\ \A h \in Range(result.headers) :
              (~IsRate(h) /\ ~IsLongest(h)
                 /\ Cardinality(GamesWithData(h, Len(games))) >= 1)
              => /\ h \in DOMAIN result.averages
                 /\ result.averages[h] =
                       FDivInt(SumCells(NumericCells(h, Len(games))), Len(games))
                 /\ result.totals[h] = SumCells(NumericCells(h, Len(games)))

\* a sparse column: data in fewer games than were passed, and a non-zero sum
C2_Witness ==
    /\ Returned
    /\ \E h \in Range(result.headers) :
          /\ ~IsRate(h) /\ ~IsLongest(h)
          /\ Cardinality(GamesWithData(h, Len(games))) \in 1..(Len(games) - 1)
          /\ result.totals[h].n # 0
          /\ result.averages[h] = FDivInt(result.totals[h], Len(games))

(***************************************************************************)
(* C3: a header whose base label is Avg, Rate, Pct, Yds/A or Avg/R has     *)
(* totals[header] equal to averages[header], which is sum / game count.    *)
(***************************************************************************)
C3_RateTotalIsAverage ==
    Returned =>
        \A h \in Range(result.headers) :
            IsRate(h) =>
                /\ h \in DOMAIN result.averages
                /\ result.totals[h] = result.averages[h]
                /\ result.averages[h] =
                      FDivInt(SumCells(NumericCells(h, Len(games))), Len(games))

(***************************************************************************)
(* C4: a header whose base label is Lng or Long, with numeric values in    *)
(* its column, has totals = averages = the largest of those values.        *)
(***************************************************************************)
C4_LongestIsMax ==
    Returned =>
        \A h \in Range(result.headers) :
            (IsLongest(h) /\ NumericCells(h, Len(games)) # {})
            => /\ h \in DOMAIN result.averages
               /\ result.totals[h] = MaxCell(NumericCells(h, Len(games)))
               /\ result.averages[h] = MaxCell(NumericCells(h, Len(games)))

(***************************************************************************)
(* C5: a cell that does not parse is skipped: after every game the sum,    *)
(* max and count of each header are those of the parsable cells alone,     *)
(* the later cells of the row and the later games are accumulated, and     *)
(* the call returns its dictionary.                                        *)
(***************************************************************************)
C5_MalformedCellSkipped ==
    /\ pc = "agg_accumulate" =>
          \A h \in Range(unique_headers) :
              LET S == NumericCells(h, gi)
              IN /\ counts[h] = Cardinality(S)
                 /\ sums[h] = SumCells(S)
                 /\ maxes[h] = IF S # {} /\ FGt(MaxCell(S), FZero)
                               THEN MaxCell(S) ELSE FZero
    /\ (pc = "agg_done" /\ games # << >> /\ headers # << >>) => ~result.empty

\* "x" under Rate is skipped, "1,200" right of it and the next game count
C5_Witness ==
    /\ pc = "agg_accumulate"
    /\ gi = 2
    /\ headers = <<"Lng", "Rate", "TD">>
    /\ games = << <<"3", "x", "1,200", "7">>, <<"12", "80.0", "3">> >>
    /\ counts["Rate"] = 1
    /\ sums["Rate"] = FInt(80)
    /\ sums["TD"] = FInt(1203)

(***************************************************************************)
(* C23: for a non-empty game list and a non-empty header list the result   *)
(* of aggregate_stats holds a total and an average for every deduplicated  *)
(* header: the keys of 'totals' and of 'averages' are both the set of the  *)
(* returned headers, also for a header with no numeric cell in any game.   *)
(***************************************************************************)
C23_TotalAndAverageForEveryHeader ==
    Returned =>
        /\ DOMAIN result.totals = Range(result.headers)
        /\ DOMAIN result.averages = Range(result.headers)

(***************************************************************************)
(* C29: the deduplicated labels of aggregate_stats are pairwise distinct   *)
(* for every header list, also when a raw label already looks like a       *)
(* suffixed one, so that every column has its own sum, max and count.      *)
(***************************************************************************)
C29_DedupLabelsDistinct ==
    pc \in {"agg_accumulate", "agg_done"} /\ headers # << >> /\ games # << >> =>
        /\ \A i, j \in 1..Len(unique_headers) :
               i # j => unique_headers[i] # unique_headers[j]
        /\ Cardinality(DOMAIN sums) = Len(headers)
        /\ Cardinality(DOMAIN maxes) = Len(headers)
        /\ Cardinality(DOMAIN counts) = Len(headers)

(***************************************************************************)
(* check_game_threshold and count_games_meeting_threshold (filters.py).    *)
(***************************************************************************)
ThrRows ==
    { <<"105">>,
      <<"99", "105">>,
      <<"x", "1,105">>,
      <<"--", "2">>,
      << >> }

ThrGameLists == UNION {[1..n -> ThrRows] : n \in 0..MaxGames}

ThrHeaderLists ==
    { <<"Yds">>,
      <<"Rec Yds">>,
      <<"Yds", "Yds">>,
      <<"Pass Yds", "Rush Yds">>,
      <<"Rec", "TD">>,
      <<"Rec TD", "Yds", "Yards">> }

\* the (stat, value) pairs a threshold query carries; "fumbles" has no
\* table entry and is looked up under its own name
ThresholdQueries ==
    { [stat |-> "yards", value |-> 100],
      [stat |-> "touchdowns", value |-> 2],
      [stat |-> "receptions", value |-> 99],
      [stat |-> "fumbles", value |-> 1] }

Positions == {"WR", "RB", "QB", "LB", "None"}

\* PossibleHeaders that reads every position as a receiver
PossibleHeadersReceiverOnly(stat, pos) ==
    IF stat = "yards" THEN <<"Yds", "Receiving Yards", "Rec Yds">>
    ELSE IF stat = "touchdowns" THEN <<"TD", "Rec TD", "Receiving TD">>
    ELSE <<stat>>

\* the acceptable header spellings of a stat for a position
PossibleHeaders(stat, pos) ==
    IF stat = "yards"
    THEN IF pos \in {"WR", "TE"} THEN <<"Yds", "Receiving Yards", "Rec Yds">>
         ELSE IF pos \in {"RB", "FB"} THEN <<"Yds", "Rushing Yards", "Rush Yds">>
         ELSE IF pos \in {"QB"} THEN <<"Yds", "Passing Yards", "Pass Yds">>
         ELSE <<"Yds", "Yards">>
    ELSE IF stat = "touchdowns"
    THEN IF pos \in {"WR", "TE"} THEN <<"TD", "Rec TD", "Receiving TD">>
         ELSE IF pos \in {"RB", "FB"} THEN <<"TD", "Rush TD", "Rushing TD">>
         ELSE IF pos \in {"QB"} THEN <<"TD", "Pass TD", "Passing TD">>
         ELSE <<"TD", "Touchdowns">>
    ELSE IF stat = "receptions" THEN <<"Rec", "Receptions">>
    ELSE IF stat = "sacks" THEN <<"Sack", "Sacks">>
    ELSE IF stat = "tackles" THEN <<"Tot", "Total Tackles", "Tackles">>
    ELSE IF stat = "interceptions" THEN <<"INT", "Interceptions">>
    ELSE <<stat>>

\* ThresholdScan that lets the first acceptable column decide
RECURSIVE ThresholdScanFirstDecides(_, _, _, _, _)
ThresholdScanFirstDecides(stats, hs, possible_headers, value, i) ==
    IF i > Len(hs) THEN FALSE
    ELSE IF hs[i] \in Range(possible_headers)
         THEN /\ i <= Len(stats)
              /\ CleanCell(stats[i]).ok
              /\ FGe(CleanCell(stats[i]).val, FInt(value))
         ELSE ThresholdScanFirstDecides(stats, hs, possible_headers, value, i + 1)

\* "for i, header in enumerate(headers)" with its early return
RECURSIVE ThresholdScan(_, _, _, _, _)
ThresholdScan(stats, hs, possible_headers, value, i) ==
    IF i > Len(hs) THEN FALSE
    ELSE IF /\ hs[i] \in Range(possible_headers)
            /\ i <= Len(stats)
            /\ CleanCell(stats[i]).ok
            /\ FGe(CleanCell(stats[i]).val, FInt(value))
         THEN TRUE
         ELSE ThresholdScan(stats, hs, possible_headers, value, i + 1)

check_game_threshold(stats, hs, stat, value, pos) ==
    ThresholdScan(stats, hs, PossibleHeaders(stat, pos), value, 1)

\* a caller that knows the player applies the predicate to one game
\* (the threshold path of process_query)
ThrCheckGame ==
    /\ pc = "thr_count"
    /\ gi = 0
    /\ \E g \in 1..Len(games) :
          /\ gi' = g
          /\ result' = check_game_threshold(games[g], headers, threshold_stat,
                                            threshold_value, position)
    /\ pc' = "thr_checked"
    /\ UNCHANGED <<games, headers, aggVars, thrVars, parseVars, searchVars,
                   mainVars, careerVars>>

\* one iteration of the loop of count_games_meeting_threshold, which calls
\* the predicate without a position
ThrCountGame ==
    /\ pc = "thr_count"
    /\ gi < Len(games)
    /\ count' = IF check_game_threshold(games[gi + 1], headers, threshold_stat,
                                        threshold_value, "None")
                THEN count + 1 ELSE count
    /\ gi' = gi + 1
    /\ UNCHANGED <<pc, games, headers, aggVars, result, threshold_stat,
                   threshold_value, position, parseVars, searchVars, mainVars, careerVars>>

ThrCountReturn ==
    /\ pc = "thr_count"
    /\ gi = Len(games)
    /\ result' = count
    /\ pc' = "thr_done"
    /\ UNCHANGED <<games, headers, gi, aggVars, thrVars, parseVars, searchVars,
                   mainVars, careerVars>>

InitThr ==
    /\ pc = "thr_count"
    /\ games \in ThrGameLists
    /\ headers \in ThrHeaderLists
    /\ \E q \in ThresholdQueries :
          threshold_stat = q.stat /\ threshold_value = q.value
    /\ position \in Positions
    /\ count = 0
    /\ gi = 0
    /\ result = 0
    /\ unique_headers = << >>
    /\ sums = EmptyFn
    /\ maxes = EmptyFn
    /\ counts = EmptyFn
    /\ query = ""
    /\ intent = NoIntent
    /\ now = NoClock
    /\ SearchIdle
    /\ MainIdle
    /\ CareerIdle

NextThr == ThrCheckGame \/ ThrCountGame \/ ThrCountReturn

SpecThr == InitThr /\ [][NextThr]_vars

(***************************************************************************)
(* C6: the threshold predicate is position-aware: for yards and            *)
(* touchdowns only the columns labelled with a spelling of the position's  *)
(* list count (WR/TE receiving, RB/FB rushing, QB passing, else generic);  *)
(* WR with "Yds" = 105 meets 100 yards, QB with only "Rec Yds" = 105 does  *)
(* not.                                                                    *)
(***************************************************************************)
ClaimedSpellings(stat, pos) ==
    IF pos \in {"WR", "TE"}
    THEN IF stat = "yards" THEN {"Yds", "Receiving Yards", "Rec Yds"}
         ELSE {"TD", "Rec TD", "Receiving TD"}
    ELSE IF pos \in {"RB", "FB"}
    THEN IF stat = "yards" THEN {"Yds", "Rushing Yards", "Rush Yds"}
         ELSE {"TD", "Rush TD", "Rushing TD"}
    ELSE IF pos = "QB"
    THEN IF stat = "yards" THEN {"Yds", "Passing Yards", "Pass Yds"}
         ELSE {"TD", "Pass TD", "Passing TD"}
    ELSE IF stat = "yards" THEN {"Yds", "Yards"} ELSE {"TD", "Touchdowns"}

\* some column of the game under one of the labels holds a value >= v
ReachedUnder(stats, hs, labels, v) ==
    \E i \in 1..Len(hs) :
        /\ hs[i] \in labels
        /\ i <= Len(stats)
        /\ CleanCell(stats[i]).ok
        /\ FGe(CleanCell(stats[i]).val, FInt(v))

C6_PositionAware ==
    pc = "thr_checked" =>
        /\ threshold_stat \in {"yards", "touchdowns"} =>
              (result <=> ReachedUnder(games[gi], headers,
                                       ClaimedSpellings(threshold_stat, position),
                                       threshold_value))
        /\ (/\ position = "WR" /\ headers = <<"Yds">> /\ games[gi] = <<"105">>
            /\ threshold_stat = "yards" /\ threshold_value = 100) => result
        /\ (/\ position = "QB" /\ headers = <<"Rec Yds">> /\ games[gi] = <<"105">>
            /\ threshold_stat = "yards" /\ threshold_value = 100) => ~result

\* both examples of the claim occur: the same row is accepted for a
\* receiver under "Rec Yds" and rejected for a quarterback
C6_Witness ==
    /\ pc = "thr_checked"
    /\ headers = <<"Rec Yds">>
    /\ games[gi] = <<"105">>
    /\ threshold_stat = "yards"
    /\ threshold_value = 100
    /\ position = "QB"
    /\ ~result
    /\ check_game_threshold(<<"105">>, <<"Yds">>, "yards", 100, "WR")
    /\ check_game_threshold(<<"105">>, headers, "yards", 100, "WR")

(***************************************************************************)
(* C25: check_game_threshold is true exactly when some column index below  *)
(* both the header count and the cell count has an acceptable header and   *)
(* a cell that parses to a number >= the threshold; an acceptable column   *)
(* that is too small or does not parse does not end the scan, so the       *)
(* second "Yds" of a running back's row can still make the result true.    *)
(***************************************************************************)
C25_AnyAcceptableColumn ==
    pc = "thr_checked" =>
        LET stats == games[gi]
            acceptable == Range(PossibleHeaders(threshold_stat, position))
        IN /\ result <=>
                 \E i \in 1..Len(headers) :
                     /\ i <= Len(stats)
                     /\ headers[i] \in acceptable
                     /\ CleanCell(stats[i]).ok
                     /\ FGe(CleanCell(stats[i]).val, FInt(threshold_value))
           /\ (/\ position = "RB" /\ headers = <<"Yds", "Yds">>
               /\ stats = <<"99", "105">>
               /\ threshold_stat = "yards" /\ threshold_value = 100) => result

\* the first "Yds" is below 100, the second reaches it
C25_Witness ==
    /\ pc = "thr_checked"
    /\ position = "RB"
    /\ headers = <<"Yds", "Yds">>
    /\ games[gi] = <<"99", "105">>
    /\ threshold_stat = "yards"
    /\ threshold_value = 100
    /\ result = TRUE

(***************************************************************************)
(* C7: count_games_meeting_threshold returns the number of games for       *)
(* which check_game_threshold(g, headers, stat, threshold, position) is    *)
(* true for the player's position, a number between 0 and the number of    *)
(* games.                                                                  *)
(***************************************************************************)
C7_CountMatchesPredicate ==
    pc = "thr_done" =>
        /\ result = Cardinality({g \in 1..Len(games) :
                        check_game_threshold(games[g], headers, threshold_stat,
                                             threshold_value, position)})
        /\ result \in 0..Len(games)

(***************************************************************************)
(* Regular expressions of Python's re module, as far as parse_query uses   *)
(* them.  A pattern is a tree; Match lists the ways the pattern matches    *)
(* at an offset in the order in which the backtracking matcher tries       *)
(* them, so the head of the list is the match re.search and re.sub take.   *)
(* Offsets count the characters to the left (0 .. Len(s)).                 *)
(* re.IGNORECASE: the patterns are written in lower case and are matched   *)
(* against the lower-cased text.                                           *)
(***************************************************************************)
UpperCase == <<"A", "B", "C", "D", "E", "F", "G", "H", "I", "J", "K", "L", "M",
               "N", "O", "P", "Q", "R", "S", "T", "U", "V", "W", "X", "Y", "Z">>
LowerCase == <<"a", "b", "c", "d", "e", "f", "g", "h", "i", "j", "k", "l", "m",
               "n", "o", "p", "q", "r", "s", "t", "u", "v", "w", "x", "y", "z">>
UpperSet == Range(UpperCase)
WordChars == UpperSet \cup Range(LowerCase) \cup Digits \cup {"_"}
SpaceChars == {" "}

LowerCh(c) ==
    IF c \in UpperSet
    THEN LowerCase[CHOOSE k \in 1..Len(UpperCase) : UpperCase[k] = c]
    ELSE c

\* str.lower()
RECURSIVE LowerRange(_, _, _)
LowerRange(s, lo, hi) ==
    IF lo > hi THEN ""
    ELSE IF lo = hi THEN LowerCh(Ch(s, lo))
    ELSE LowerRange(s, lo, (lo + hi) \div 2)
            \o LowerRange(s, ((lo + hi) \div 2) + 1, hi)

Lower(s) == LowerRange(s, 1, Len(s))

Lit(str) == [t |-> "lit", s |-> str]
AnyOf(chars) == [t |-> "set", cs |-> chars]
Cat(rs) == [t |-> "cat", xs |-> rs]
Alt(rs) == [t |-> "alt", xs |-> rs]
Opt(r) == [t |-> "opt", x |-> r]
Star(r) == [t |-> "star", x |-> r]
Plus(r) == [t |-> "plus", x |-> r]
Grp(n, r) == [t |-> "grp", k |-> n, x |-> r]
B == [t |-> "b"]
D == AnyOf(Digits)
S == AnyOf(SpaceChars)
W == AnyOf(WordChars)

\* (a|b|c) of literal words
Words(ws) == Alt([k \in 1..Len(ws) |-> Lit(ws[k])])

\* \b(...)\b
Bounded(r) == Cat(<<B, r, B>>)

NoGroups == << <<-1, -1>>, <<-1, -1>> >>

IsWordAt(s, i) == i >= 1 /\ i <= Len(s) /\ Ch(s, i) \in WordChars

\* the results without repetitions of an offset, first occurrence kept
RECURSIVE Distinct(_, _)
Distinct(rs, seen) ==
    IF Len(rs) = 0 THEN << >>
    ELSE IF Head(rs).e \in seen THEN Distinct(Tail(rs), seen)
         ELSE <<Head(rs)>> \o Distinct(Tail(rs), seen \cup {Head(rs).e})

RECURSIVE Match(_, _, _, _)
RECURSIVE MatchCat(_, _, _, _, _)
RECURSIVE MatchCatFrom(_, _, _, _)
RECURSIVE MatchAlt(_, _, _, _, _, _)
RECURSIVE MatchStar(_, _, _, _)
RECURSIVE MatchStarFrom(_, _, _, _)
RECURSIVE SetGroup(_, _, _)

Match(r, s, i, g) ==
    CASE r.t = "lit" ->
            IF i + Len(r.s) <= Len(s) /\ SubSeq(s, i + 1, i + Len(r.s)) = r.s
            THEN <<[e |-> i + Len(r.s), g |-> g]>> ELSE << >>
      [] r.t = "set" ->
            IF i < Len(s) /\ Ch(s, i + 1) \in r.cs
            THEN <<[e |-> i + 1, g |-> g]>> ELSE << >>
      [] r.t = "b" ->
            IF IsWordAt(s, i) # IsWordAt(s, i + 1)
            THEN <<[e |-> i, g |-> g]>> ELSE << >>
      [] r.t = "cat" -> MatchCat(r.xs, 1, s, i, g)
      [] r.t = "alt" -> MatchAlt(r.xs, 1, Len(r.xs), s, i, g)
      [] r.t = "opt" -> Match(r.x, s, i, g) \o <<[e |-> i, g |-> g]>>
      [] r.t = "star" -> MatchStar(r.x, s, i, g)
      [] r.t = "plus" -> MatchStarFrom(Match(r.x, s, i, g), r.x, s, -1)
      [] r.t = "grp" -> SetGroup(Match(r.x, s, i, g), r.k, i)

SetGroup(rs, k, i) ==
    IF Len(rs) = 0 THEN << >>
    ELSE <<[e |-> Head(rs).e, g |-> [Head(rs).g EXCEPT ![k] = <<i, Head(rs).e>>]]>>
            \o SetGroup(Tail(rs), k, i)

MatchCat(xs, k, s, i, g) ==
    IF k > Len(xs) THEN <<[e |-> i, g |-> g]>>
    ELSE MatchCatFrom(Match(xs[k], s, i, g), xs, k + 1, s)

MatchCatFrom(rs, xs, k, s) ==
    IF Len(rs) = 0 THEN << >>
    ELSE MatchCat(xs, k, s, Head(rs).e, Head(rs).g)
            \o MatchCatFrom(Tail(rs), xs, k, s)

\* the alternatives lo..hi, in their order
MatchAlt(xs, lo, hi, s, i, g) ==
    IF lo > hi THEN << >>
    ELSE IF lo = hi THEN Match(xs[lo], s, i, g)
    ELSE MatchAlt(xs, lo, (lo + hi) \div 2, s, i, g)
            \o MatchAlt(xs, ((lo + hi) \div 2) + 1, hi, s, i, g)

\* greedy x*: one more x where that consumes text, then none
MatchStar(x, s, i, g) ==
    Distinct(MatchStarFrom(Match(x, s, i, g), x, s, i) \o <<[e |-> i, g |-> g]>>, {})

\* the continuations of the matches rs of x that end to the right of i
MatchStarFrom(rs, x, s, i) ==
    IF Len(rs) = 0 THEN << >>
    ELSE (IF Head(rs).e > i THEN MatchStar(x, s, Head(rs).e, Head(rs).g) ELSE << >>)
            \o MatchStarFrom(Tail(rs), x, s, i)

NotFound == [found |-> FALSE, start |-> 0, end |-> 0, g |-> NoGroups]

\* the offsets among lo..hi of the lower-cased text ls at which r matches,
\* or at which the match consumes text
Starts(r, ls, lo, hi, consuming) ==
    {i \in lo..hi : LET m == Match(r, ls, i, NoGroups)
                    IN Len(m) > 0 /\ (~consuming \/ Head(m).e > i)}

\* the end of the match of r at the offset i
EndAt(r, ls, i) == Head(Match(r, ls, i, NoGroups)).e

\* the first match of m, which starts at i
MatchAt(m, i) ==
    [found |-> TRUE, start |-> i, end |-> Head(m).e, g |-> Head(m).g]

FirstMatch(starts, r, ls) ==
    IF starts = {} THEN NotFound
    ELSE MatchAt(Match(r, ls, Least(starts), NoGroups), Least(starts))

\* re.search on the lower-cased text ls: the leftmost match
SearchIn(r, ls) ==
    IF Len(ls) < 0 THEN NotFound
    ELSE FirstMatch(Starts(r, ls, 0, Len(ls), FALSE), r, ls)

Search(r, s) == SearchIn(r, Lower(s))

\* the text of group k of a match in s
Group(m, s, k) == SubSeq(s, m.g[k][1] + 1, m.g[k][2])

\* re.sub(r, '', s) from the offset i: the text left of, between and right
\* of the matches; next are the matches at or after i
RECURSIVE SubFrom(_, _, _, _, _)
SubNext(next, starts, r, s, ls, i) ==
    IF next = {} THEN SubSeq(s, i + 1, Len(s))
    ELSE SubSeq(s, i + 1, Least(next))
            \o SubFrom(starts, r, s, ls, EndAt(r, ls, Least(next)))

SubFrom(starts, r, s, ls, i) ==
    SubNext({h \in starts : h >= i}, starts, r, s, ls, i)

SubIn(r, s, ls) ==
    IF Len(ls) < 0 THEN ""
    ELSE SubFrom(Starts(r, ls, 0, Len(s) - 1, TRUE), r, s, ls, 0)

Sub(r, s) == SubIn(r, s, Lower(s))

(***************************************************************************)
(* Reference tables of parse_query (parser.py) and the teams directory     *)
(* (data.py).                                                              *)
(***************************************************************************)
\* get_teams()
Teams ==
    <<
       [name |-> "Arizona Cardinals", abbr |-> "ARI", id |-> "22"],
       [name |-> "Atlanta Falcons", abbr |-> "ATL", id |-> "1"],
       [name |-> "Baltimore Ravens", abbr |-> "BAL", id |-> "33"],
       [name |-> "Buffalo Bills", abbr |-> "BUF", id |-> "2"],
       [name |-> "Carolina Panthers", abbr |-> "CAR", id |-> "29"],
       [name |-> "Chicago Bears", abbr |-> "CHI", id |-> "3"],
       [name |-> "Cincinnati Bengals", abbr |-> "CIN", id |-> "4"],
       [name |-> "Cleveland Browns", abbr |-> "CLE", id |-> "5"],
       [name |-> "Dallas Cowboys", abbr |-> "DAL", id |-> "6"],
       [name |-> "Denver Broncos", abbr |-> "DEN", id |-> "7"],
       [name |-> "Detroit Lions", abbr |-> "DET", id |-> "8"],
       [name |-> "Green Bay Packers", abbr |-> "GB", id |-> "9"],
       [name |-> "Houston Texans", abbr |-> "HOU", id |-> "34"],
       [name |-> "Indianapolis Colts", abbr |-> "IND", id |-> "11"],
       [name |-> "Jacksonville Jaguars", abbr |-> "JAX", id |-> "30"],
       [name |-> "Kansas City Chiefs", abbr |-> "KC", id |-> "12"],
       [name |-> "Las Vegas Raiders", abbr |-> "LV", id |-> "13"],
       [name |-> "Los Angeles Chargers", abbr |-> "LAC", id |-> "24"],
       [name |-> "Los Angeles Rams", abbr |-> "LAR", id |-> "14"],
       [name |-> "Miami Dolphins", abbr |-> "MIA", id |-> "15"],
       [name |-> "Minnesota Vikings", abbr |-> "MIN", id |-> "16"],
       [name |-> "New England Patriots", abbr |-> "NE", id |-> "17"],
       [name |-> "New Orleans Saints", abbr |-> "NO", id |-> "18"],
       [name |-> "New York Giants", abbr |-> "NYG", id |-> "19"],
       [name |-> "New York Jets", abbr |-> "NYJ", id |-> "20"],
       [name |-> "Philadelphia Eagles", abbr |-> "PHI", id |-> "21"],
       [name |-> "Pittsburgh Steelers", abbr |-> "PIT", id |-> "23"],
       [name |-> "San Francisco 49ers", abbr |-> "SF", id |-> "25"],
       [name |-> "Seattle Seahawks", abbr |-> "SEA", id |-> "26"],
       [name |-> "Tampa Bay Buccaneers", abbr |-> "TB", id |-> "27"],
       [name |-> "Tennessee Titans", abbr |-> "TEN", id |-> "10"],
       [name |-> "Washington Commanders", abbr |-> "WAS", id |-> "28"]
    >>

TeamByAbbr(a) == Teams[CHOOSE k \in 1..Len(Teams) : Teams[k].abbr = a]

\* index of the last occurrence of the character c in s, 0 when absent
FindLastChar(s, c, i) == GreatestOrZero({k \in 1..i : Ch(s, k) = c})

\* name.split()[-1] of a name without surrounding blanks
LastWord(name) == SubSeq(name, FindLastChar(name, " ", Len(name)) + 1, Len(name))

\* teams.sort(key=lambda x: len(x['name']), reverse=True): a stable sort
RECURSIVE InsertByNameLength(_, _, _)
InsertByNameLength(sorted, t, k) ==
    IF k > Len(sorted) \/ Len(sorted[k].name) < Len(t.name)
    THEN SubSeq(sorted, 1, k - 1) \o <<t>> \o SubSeq(sorted, k, Len(sorted))
    ELSE InsertByNameLength(sorted, t, k + 1)

RECURSIVE SortByNameLength(_, _, _)
SortByNameLength(ts, k, sorted) ==
    IF k > Len(ts) THEN sorted
    ELSE SortByNameLength(ts, k + 1, InsertByNameLength(sorted, ts[k], 1))

SortedTeams == SortByNameLength(Teams, 1, << >>)

\* team_nicknames, in the order of the dictionary
TeamNicknames ==
    << <<"bucs", "TB">>, <<"niners", "SF">>, <<"pats", "NE">>, <<"fins", "MIA">>,
       <<"pack", "GB">>, <<"boys", "DAL">>, <<"birds", "PHI">>, <<"bolts", "LAC">>,
       <<"cards", "ARI">>, <<"brownies", "CLE">>, <<"jags", "JAX">>,
       <<"vikes", "MIN">> >>

\* stopwords_check
StopwordsCheck ==
    <<"passing", "rushing", "receiving", "defense", "stats", "statistics",
      "season", "game", "games", "vs", "at", "who", "is", "the", "for">>

\* the words the fuzzy team match skips
FuzzySkipWords ==
    {"the", "for", "who", "what", "when", "where",
     "sacks", "yards", "touchdowns", "passing", "rushing", "receiving",
     "tackles", "interceptions", "receptions", "catches", "leader", "leaders"}

\* position_keywords, in the order of the dictionary
PositionKeywords ==
    << <<"quarterback", "QB">>, <<"qb", "QB">>, <<"qbs", "QB">>,
       <<"quarterbacks", "QB">>,
       <<"running back", "RB">>, <<"rb", "RB">>, <<"halfback", "RB">>,
       <<"rbs", "RB">>, <<"running backs", "RB">>, <<"backs", "RB">>,
       <<"wide receiver", "WR">>, <<"wr", "WR">>, <<"receiver", "WR">>,
       <<"wrs", "WR">>, <<"receivers", "WR">>, <<"wide receivers", "WR">>,
       <<"tight end", "TE">>, <<"te", "TE">>, <<"tes", "TE">>,
       <<"tight ends", "TE">>,
       <<"center", "C">>, <<"c", "C">>, <<"centers", "C">>,
       <<"guard", "G">>, <<"g", "G">>, <<"guards", "G">>,
       <<"tackle", "T">>, <<"t", "T">>, <<"offensive tackle", "T">>,
       <<"tackles", "T">>,
       <<"kicker", "K">>, <<"k", "K">>, <<"kickers", "K">>,
       <<"punter", "P">>, <<"p", "P">>, <<"punters", "P">>,
       <<"defensive line", "DL">>, <<"dl", "DL">>, <<"d-line", "DL">>,
       <<"linebacker", "LB">>, <<"lb", "LB">>, <<"lbs", "LB">>,
       <<"linebackers", "LB">>,
       <<"cornerback", "CB">>, <<"cb", "CB">>, <<"cbs", "CB">>,
       <<"cornerbacks", "CB">>,
       <<"safety", "S">>, <<"s", "S">>, <<"safeties", "S">>,
       <<"secondary", "DB">>, <<"db", "DB">>, <<"dbs", "DB">>,
       <<"defense", "DEF">>, <<"def", "DEF">> >>

Months ==
    <<"january", "february", "march", "april", "may", "june",
      "july", "august", "september", "october", "november", "december">>

\* position_patterns (position name, positions), in the order of the dictionary
PositionPatterns ==
    << <<"receivers", <<"WR", "TE">> >>, <<"wrs", <<"WR">> >>,
       <<"tight ends", <<"TE">> >>, <<"tes", <<"TE">> >>,
       <<"running backs", <<"RB">> >>, <<"rbs", <<"RB">> >>,
       <<"quarterbacks", <<"QB">> >>, <<"qbs", <<"QB">> >>,
       <<"defense", <<"DE", "DT", "LB", "CB", "S", "DB">> >>,
       <<"defensive line", <<"DE", "DT">> >>,
       <<"linebackers", <<"LB">> >>, <<"lbs", <<"LB">> >>,
       <<"secondary", <<"CB", "S", "DB">> >>, <<"dbs", <<"CB", "S", "DB">> >> >>

\* stopwords of the final clean-up
Stopwords ==
    <<"passing", "rushing", "receiving", "defense", "stats", "statistics",
      "season", "game", "games", "vs", "at", "in", "his", "her", "their",
      "the", "a", "an", "for", "with", "on">>

(***************************************************************************)
(* The regular expressions of parse_query, each under the pattern it       *)
(* transliterates.                                                         *)
(***************************************************************************)
\* \b(20\d{2})\b
RYear == Bounded(Grp(1, Cat(<<Lit("20"), D, D>>)))

\* \b(last|previous)\s*(year|season)\b
RLastYear ==
    Cat(<<B, Words(<<"last", "previous">>), Star(S), Words(<<"year",
        "season">>), B>>)

\* \b(this|current)\s*(year|season)\b
RThisYear ==
    Cat(<<B, Words(<<"this", "current">>), Star(S), Words(<<"year",
        "season">>), B>>)

\* \bweek\s+(\d+)\b
RWeek == Cat(<<B, Lit("week"), Plus(S), Grp(1, Plus(D)), B>>)

\* \b(playoff|playoffs|postseason)\b
RPlayoffs == Bounded(Words(<<"playoff", "playoffs", "postseason">>))

\* \b(super\s*bowls?|sb)\b
RSuperBowl ==
    Bounded(Alt(<<Cat(<<Lit("super"), Star(S), Lit("bowl"), Opt(Lit("s"))>>),
        Lit("sb")>>))

\* \b(rookie)\b
RRookie == Bounded(Lit("rookie"))

\* \b(career|lifetime|all[\s-]?time)\b
RCareer ==
    Bounded(Alt(<<Lit("career"), Lit("lifetime"), Cat(<<Lit("all"),
        Opt(AnyOf({"-", " "})), Lit("time")>>)>>))

\* \b(draft|drafted|draft\s*pick|draft\s*position)\b
RDraft ==
    Bounded(Alt(<<Lit("draft"), Lit("drafted"), Cat(<<Lit("draft"), Star(S),
        Lit("pick")>>), Cat(<<Lit("draft"), Star(S), Lit("position")>>)>>))

\* \b(first|1st|second|2nd|third|3rd|fourth|4th|fifth|5th|sixth|6th|seventh|7th)\s*round\b
RDraftRound ==
    Cat(<<B, Grp(1, Words(<<"first", "1st", "second", "2nd", "third", "3rd",
        "fourth", "4th", "fifth", "5th", "sixth", "6th", "seventh",
        "7th">>)), Star(S), Lit("round"), B>>)

\* \b(age|old|college|height|weight|bio|biography)\b
RBio ==
    Bounded(Words(<<"age", "old", "college", "height", "weight", "bio",
        "biography">>))

\* \b(injur|hurt|health|status)\b
RInjury == Bounded(Words(<<"injur", "hurt", "health", "status">>))

\* \b(trending|hot|popular|adds|drops|waiver)\b
RTrending ==
    Bounded(Words(<<"trending", "hot", "popular", "adds", "drops",
        "waiver">>))

\* \b(fantasy\s*points?|fantasy|points?)\b
RFantasy ==
    Bounded(Alt(<<Cat(<<Lit("fantasy"), Star(S), Lit("point"),
        Opt(Lit("s"))>>), Lit("fantasy"), Cat(<<Lit("point"),
        Opt(Lit("s"))>>)>>))

\* \b(qb|rb|wr|te|k|p|lb|cb|db|de|dt|dl|s)(\d)\b
RDepth ==
    Cat(<<B, Grp(1, Words(<<"qb", "rb", "wr", "te", "k", "p", "lb", "cb",
        "db", "de", "dt", "dl", "s">>)), Grp(2, D), B>>)

\* \b(starting|starter|backup|depth\s*chart|roster|roaster)\b
RRosterKeyword ==
    Bounded(Alt(<<Lit("starting"), Lit("starter"), Lit("backup"),
        Cat(<<Lit("depth"), Star(S), Lit("chart")>>), Lit("roster"),
        Lit("roaster")>>))

\* \b(mvp|most\s*valuable|opoy|dpoy|oroy|droy|pro\s*bowl|all[\s-]?pro|hall\s*of\s*fame|hof|awards?|troph(?:y|ies))\b
RAwards ==
    Bounded(Alt(<<Lit("mvp"), Cat(<<Lit("most"), Star(S), Lit("valuable")>>),
        Lit("opoy"), Lit("dpoy"), Lit("oroy"), Lit("droy"), Cat(<<Lit("pro"),
        Star(S), Lit("bowl")>>), Cat(<<Lit("all"), Opt(AnyOf({"-", " "})),
        Lit("pro")>>), Cat(<<Lit("hall"), Star(S), Lit("of"), Star(S),
        Lit("fame")>>), Lit("hof"), Cat(<<Lit("award"), Opt(Lit("s"))>>),
        Cat(<<Lit("troph"), Words(<<"y", "ies">>)>>)>>))

\* \bmvp\b
RMvp == Bounded(Lit("mvp"))

\* \bopoy\b
ROpoy == Bounded(Lit("opoy"))

\* \bdpoy\b
RDpoy == Bounded(Lit("dpoy"))

\* \boroy\b
ROroy == Bounded(Lit("oroy"))

\* \bdroy\b
RDroy == Bounded(Lit("droy"))

\* \bpro\s*bowl\b
RProBowl == Cat(<<B, Lit("pro"), Star(S), Lit("bowl"), B>>)

\* \ball[\s-]?pro\b
RAllPro == Cat(<<B, Lit("all"), Opt(AnyOf({"-", " "})), Lit("pro"), B>>)

\* \b(hall\s*of\s*fame|hof)\b
RHallOfFame ==
    Bounded(Alt(<<Cat(<<Lit("hall"), Star(S), Lit("of"), Star(S),
        Lit("fame")>>), Lit("hof")>>))

\* \b(when|what\s*year|which\s*year|first)\b
RAwardWhen ==
    Bounded(Alt(<<Lit("when"), Cat(<<Lit("what"), Star(S), Lit("year")>>),
        Cat(<<Lit("which"), Star(S), Lit("year")>>), Lit("first")>>))

\* \b(mvp|most\s*valuable|opoy|dpoy|oroy|droy|pro\s*bowl|all[\s-]?pro|hall\s*of\s*fame|hof|awards?|troph(?:y|ies)|when|what\s*year|which\s*year|first|win|won)\b
RAwardsRemove ==
    Bounded(Alt(<<Lit("mvp"), Cat(<<Lit("most"), Star(S), Lit("valuable")>>),
        Lit("opoy"), Lit("dpoy"), Lit("oroy"), Lit("droy"), Cat(<<Lit("pro"),
        Star(S), Lit("bowl")>>), Cat(<<Lit("all"), Opt(AnyOf({"-", " "})),
        Lit("pro")>>), Cat(<<Lit("hall"), Star(S), Lit("of"), Star(S),
        Lit("fame")>>), Lit("hof"), Cat(<<Lit("award"), Opt(Lit("s"))>>),
        Cat(<<Lit("troph"), Words(<<"y", "ies">>)>>), Lit("when"),
        Cat(<<Lit("what"), Star(S), Lit("year")>>), Cat(<<Lit("which"),
        Star(S), Lit("year")>>), Lit("first"), Lit("win"), Lit("won")>>))

\* \b(championship|conference\s*championship|nfc\s*championship|afc\s*championship)\b
RChampionship ==
    Bounded(Alt(<<Lit("championship"), Cat(<<Lit("conference"), Star(S),
        Lit("championship")>>), Cat(<<Lit("nfc"), Star(S),
        Lit("championship")>>), Cat(<<Lit("afc"), Star(S),
        Lit("championship")>>)>>))

\* \b(divisional|divisional\s*round)\b
RDivisional ==
    Bounded(Alt(<<Lit("divisional"), Cat(<<Lit("divisional"), Star(S),
        Lit("round")>>)>>))

\* \b(wild\s*card|wildcard)\b
RWildCard ==
    Bounded(Alt(<<Cat(<<Lit("wild"), Star(S), Lit("card")>>),
        Lit("wildcard")>>))

\* \b(prime\s*time|primetime|night\s*game|sunday\s*night|monday\s*night|thursday\s*night)\b
RPrimeTime ==
    Bounded(Alt(<<Cat(<<Lit("prime"), Star(S), Lit("time")>>),
        Lit("primetime"), Cat(<<Lit("night"), Star(S), Lit("game")>>),
        Cat(<<Lit("sunday"), Star(S), Lit("night")>>), Cat(<<Lit("monday"),
        Star(S), Lit("night")>>), Cat(<<Lit("thursday"), Star(S),
        Lit("night")>>)>>))

\* \b(1st|2nd|3rd|4th|first|second|third|fourth)\s*quarter\b
RQuarter ==
    Cat(<<B, Grp(1, Words(<<"1st", "2nd", "3rd", "4th", "first", "second",
        "third", "fourth">>)), Star(S), Lit("quarter"), B>>)

\* \b(average|avg|averages|mean)\b
RAggregation == Bounded(Words(<<"average", "avg", "averages", "mean">>))

\* \b(longest|biggest|furthest)\s+(catch|reception|run|rush|pass|touchdown|td|play)\b
RLongest ==
    Cat(<<B, Grp(1, Words(<<"longest", "biggest", "furthest">>)), Plus(S),
        Grp(2, Words(<<"catch", "reception", "run", "rush", "pass",
        "touchdown", "td", "play">>)), B>>)

\* (\d+)\+?\s*(yard|td|touchdown|reception|rec|sack|tackle|int|interception)
RThreshold ==
    Cat(<<Grp(1, Plus(D)), Opt(Lit("+")), Star(S), Grp(2, Words(<<"yard",
        "td", "touchdown", "reception", "rec", "sack", "tackle", "int",
        "interception">>))>>)

\* \d+\+?\s*(yard|td|touchdown|reception|rec|sack|tackle|int|interception)s?
RThresholdRemove ==
    Cat(<<Plus(D), Opt(Lit("+")), Star(S), Words(<<"yard", "td", "touchdown",
        "reception", "rec", "sack", "tackle", "int", "interception">>),
        Opt(Lit("s"))>>)

\* \bmultiple\s+(td|touchdown|sack|int|interception)
RMultiple ==
    Cat(<<B, Lit("multiple"), Plus(S), Words(<<"td", "touchdown", "sack",
        "int", "interception">>)>>)

\* multiple\s+(td|touchdown|sack|int|interception)s?
RMultipleMatch ==
    Cat(<<Lit("multiple"), Plus(S), Grp(1, Words(<<"td", "touchdown", "sack",
        "int", "interception">>)), Opt(Lit("s"))>>)

\* \bmultiple\s+(td|touchdown|sack|int|interception)s?\b
RMultipleRemove ==
    Cat(<<B, Lit("multiple"), Plus(S), Words(<<"td", "touchdown", "sack",
        "int", "interception">>), Opt(Lit("s")), B>>)

\* \b(who|leaders?|top|best|most|highest|lowest|worst)\b
RLeaders ==
    Bounded(Alt(<<Lit("who"), Cat(<<Lit("leader"), Opt(Lit("s"))>>),
        Lit("top"), Lit("best"), Lit("most"), Lit("highest"), Lit("lowest"),
        Lit("worst")>>))

\* \b(?:top|best|worst)\s+(\d+)\b
RLimit ==
    Cat(<<B, Words(<<"top", "best", "worst">>), Plus(S), Grp(1, Plus(D)), B>>)

\* \b(passing\s*(?:tds?|touchdowns?)|pass\s*(?:tds?|touchdowns?))\b
RPassingTouchdowns ==
    Bounded(Alt(<<Cat(<<Lit("passing"), Star(S), Alt(<<Cat(<<Lit("td"),
        Opt(Lit("s"))>>), Cat(<<Lit("touchdown"), Opt(Lit("s"))>>)>>)>>),
        Cat(<<Lit("pass"), Star(S), Alt(<<Cat(<<Lit("td"), Opt(Lit("s"))>>),
        Cat(<<Lit("touchdown"), Opt(Lit("s"))>>)>>)>>)>>))

\* \b(rushing\s*(?:tds?|touchdowns?)|rush\s*(?:tds?|touchdowns?))\b
RRushingTouchdowns ==
    Bounded(Alt(<<Cat(<<Lit("rushing"), Star(S), Alt(<<Cat(<<Lit("td"),
        Opt(Lit("s"))>>), Cat(<<Lit("touchdown"), Opt(Lit("s"))>>)>>)>>),
        Cat(<<Lit("rush"), Star(S), Alt(<<Cat(<<Lit("td"), Opt(Lit("s"))>>),
        Cat(<<Lit("touchdown"), Opt(Lit("s"))>>)>>)>>)>>))

\* \b(receiving\s*(?:tds?|touchdowns?)|rec\s*(?:tds?|touchdowns?))\b
RReceivingTouchdowns ==
    Bounded(Alt(<<Cat(<<Lit("receiving"), Star(S), Alt(<<Cat(<<Lit("td"),
        Opt(Lit("s"))>>), Cat(<<Lit("touchdown"), Opt(Lit("s"))>>)>>)>>),
        Cat(<<Lit("rec"), Star(S), Alt(<<Cat(<<Lit("td"), Opt(Lit("s"))>>),
        Cat(<<Lit("touchdown"), Opt(Lit("s"))>>)>>)>>)>>))

\* \b(passing\s*yards?|pass\s*yards?|throwing\s*yards?|passing|pass)\b
RPassingYards ==
    Bounded(Alt(<<Cat(<<Lit("passing"), Star(S), Lit("yard"),
        Opt(Lit("s"))>>), Cat(<<Lit("pass"), Star(S), Lit("yard"),
        Opt(Lit("s"))>>), Cat(<<Lit("throwing"), Star(S), Lit("yard"),
        Opt(Lit("s"))>>), Lit("passing"), Lit("pass")>>))

\* \b(rushing\s*yards?|rush\s*yards?|rushing|rush)\b
RRushingYards ==
    Bounded(Alt(<<Cat(<<Lit("rushing"), Star(S), Lit("yard"),
        Opt(Lit("s"))>>), Cat(<<Lit("rush"), Star(S), Lit("yard"),
        Opt(Lit("s"))>>), Lit("rushing"), Lit("rush")>>))

\* \b(receiving\s*yards?|rec\s*yards?|receiving|rec)\b
RReceivingYards ==
    Bounded(Alt(<<Cat(<<Lit("receiving"), Star(S), Lit("yard"),
        Opt(Lit("s"))>>), Cat(<<Lit("rec"), Star(S), Lit("yard"),
        Opt(Lit("s"))>>), Lit("receiving"), Lit("rec")>>))

\* \b(receptions?|catches|recs?)\b
RReceptions ==
    Bounded(Alt(<<Cat(<<Lit("reception"), Opt(Lit("s"))>>), Lit("catches"),
        Cat(<<Lit("rec"), Opt(Lit("s"))>>)>>))

\* \b(interceptions?|ints?)\b
RInterceptions ==
    Bounded(Alt(<<Cat(<<Lit("interception"), Opt(Lit("s"))>>),
        Cat(<<Lit("int"), Opt(Lit("s"))>>)>>))

\* \b(sacks?)\b
RSacks == Cat(<<B, Lit("sack"), Opt(Lit("s")), B>>)

\* \b(tackles?)\b
RTackles == Cat(<<B, Lit("tackle"), Opt(Lit("s")), B>>)

\* \b(pass\s*deflections?|pass\s*defended|pds?)\b
RPassesDefended ==
    Bounded(Alt(<<Cat(<<Lit("pass"), Star(S), Lit("deflection"),
        Opt(Lit("s"))>>), Cat(<<Lit("pass"), Star(S), Lit("defended")>>),
        Cat(<<Lit("pd"), Opt(Lit("s"))>>)>>))

\* \b(who|has|have|the|leaders?|top|best|most|highest|lowest|worst|in)\b
RLeaderWords ==
    Bounded(Alt(<<Lit("who"), Lit("has"), Lit("have"), Lit("the"),
        Cat(<<Lit("leader"), Opt(Lit("s"))>>), Lit("top"), Lit("best"),
        Lit("most"), Lit("highest"), Lit("lowest"), Lit("worst"),
        Lit("in")>>))

\* \b(vs|versus|compare|vs\.|compared\s+to|or|against)\b
RComparison ==
    Bounded(Alt(<<Lit("vs"), Lit("versus"), Lit("compare"), Lit("vs."),
        Cat(<<Lit("compared"), Plus(S), Lit("to")>>), Lit("or"),
        Lit("against")>>))

\* \b(?:vs\.?|versus|against)\s+(?:the\s+)?(\w+(?:\s+\w+)*)
ROpponent ==
    Cat(<<B, Alt(<<Cat(<<Lit("vs"), Opt(Lit("."))>>), Lit("versus"),
        Lit("against")>>), Plus(S), Opt(Cat(<<Lit("the"), Plus(S)>>)), Grp(1,
        Cat(<<Plus(W), Star(Cat(<<Plus(S), Plus(W)>>))>>))>>)

\* \b(?:vs\.?|versus|against)\s+(?:the\s+)?
ROpponentLead ==
    Cat(<<B, Alt(<<Cat(<<Lit("vs"), Opt(Lit("."))>>), Lit("versus"),
        Lit("against")>>), Plus(S), Opt(Cat(<<Lit("the"), Plus(S)>>))>>)

\* \b(?:vs\.?|versus|compare|or|compared\s+to|against)\b
RComparisonSplit ==
    Bounded(Alt(<<Cat(<<Lit("vs"), Opt(Lit("."))>>), Lit("versus"),
        Lit("compare"), Lit("or"), Cat(<<Lit("compared"), Plus(S),
        Lit("to")>>), Lit("against")>>))

\* \b(vs\.?|versus|compare|compared\s+to|or|against)\b
RComparisonRemove ==
    Bounded(Alt(<<Cat(<<Lit("vs"), Opt(Lit("."))>>), Lit("versus"),
        Lit("compare"), Cat(<<Lit("compared"), Plus(S), Lit("to")>>),
        Lit("or"), Lit("against")>>))

\* \b\d+\b
RNumber == Bounded(Plus(D))


\* r'\b' + word + r'\b'
WordPattern(w) == Bounded(Lit(Lower(w)))

(***************************************************************************)
(* parse_query (parser.py): an ordered pipeline of rules.  A rule maps the *)
(* residual text q and the Intent it to the pair after the rule.  Keys     *)
(* that the code adds to the dictionary only when a rule fires are fields  *)
(* that start as FALSE, "None" or -1.                                      *)
(***************************************************************************)
DefaultIntent(q) ==
    [original_query |-> q, season |-> "None", week |-> -1, season_type |-> 2,
     is_playoffs |-> FALSE, is_superbowl |-> FALSE, is_aggregation |-> FALSE,
     is_rookie |-> FALSE, is_league_leaders |-> FALSE, is_comparison |-> FALSE,
     comparison_players |-> << >>, stat_category |-> "None", limit |-> 10,
     is_career |-> FALSE, is_draft |-> FALSE, draft_round |-> -1,
     is_bio |-> FALSE, is_injury |-> FALSE, is_trending |-> FALSE,
     is_fantasy_points |-> FALSE, team_context |-> "None",
     is_roster |-> FALSE, roster_position |-> "None", roster_depth |-> -1,
     is_awards |-> FALSE, award_type |-> "None", award_year_query |-> FALSE,
     game_type |-> "None", month_filter |-> "None", prime_time |-> FALSE,
     quarter_filter |-> -1, is_longest |-> FALSE, longest_type |-> "None",
     threshold |-> [value |-> -1, stat |-> "None"], opponent_team |-> "None",
     multi_player |-> "None", clean_query |-> ""]

St(q, it) == [q |-> q, it |-> it]

Found(r, q) == Search(r, q).found

\* the relative-year branches are the ones that read the clock
ReadsClock(q) ==
    ~Found(RYear, q) /\ (Found(RLastYear, q) \/ Found(RThisYear, q))

\* variant: the year is overwritten with a marker instead of deleted
YearRuleMarksYear(q, it, clock) ==
    LET year_match == Search(RYear, q)
    IN IF year_match.found
       THEN St(Replace(q, Group(year_match, q, 1), "YEAR"),
               [it EXCEPT !.season = Group(year_match, q, 1)])
       ELSE St(q, it)

\* variant: the explicit year is recorded but left in the working text
YearRuleKeepsText(q, it, clock) ==
    LET year_match == Search(RYear, q)
        current_season == IF clock.month < 3 THEN clock.year - 1 ELSE clock.year
    IN IF year_match.found
       THEN St(q, [it EXCEPT !.season = Group(year_match, q, 1)])
       ELSE IF Found(RLastYear, q)
       THEN St(Sub(RLastYear, q),
               [it EXCEPT !.season = IntToStr(current_season - 1)])
       ELSE IF Found(RThisYear, q)
       THEN St(Sub(RThisYear, q),
               [it EXCEPT !.season = IntToStr(current_season)])
       ELSE St(q, it)

\* variant: the season rolls over one month later
YearRuleLateRollover(q, it, clock) ==
    LET year_match == Search(RYear, q)
        current_season == IF clock.month <= 3 THEN clock.year - 1 ELSE clock.year
    IN IF year_match.found
       THEN St(Replace(q, Group(year_match, q, 1), ""),
               [it EXCEPT !.season = Group(year_match, q, 1)])
       ELSE IF Found(RLastYear, q)
       THEN St(Sub(RLastYear, q),
               [it EXCEPT !.season = IntToStr(current_season - 1)])
       ELSE IF Found(RThisYear, q)
       THEN St(Sub(RThisYear, q),
               [it EXCEPT !.season = IntToStr(current_season)])
       ELSE St(q, it)

\* 1. explicit year, else "last season", else "this season"
YearRule(q, it, clock) ==
    LET year_match == Search(RYear, q)
        current_season == IF clock.month < 3 THEN clock.year - 1 ELSE clock.year
    IN IF year_match.found
       THEN St(Replace(q, Group(year_match, q, 1), ""),
               [it EXCEPT !.season = Group(year_match, q, 1)])
       ELSE IF Found(RLastYear, q)
       THEN St(Sub(RLastYear, q),
               [it EXCEPT !.season = IntToStr(current_season - 1)])
       ELSE IF Found(RThisYear, q)
       THEN St(Sub(RThisYear, q),
               [it EXCEPT !.season = IntToStr(current_season)])
       ELSE St(q, it)

\* 2. week
WeekRule(q, it) ==
    LET week_match == Search(RWeek, q)
    IN IF week_match.found
       THEN St(Sub(RWeek, q),
               [it EXCEPT !.week = DigitsVal(Group(week_match, q, 1))])
       ELSE St(q, it)

\* 3. playoffs / postseason
PlayoffsRule(q, it) ==
    IF Found(RPlayoffs, q)
    THEN St(Sub(RPlayoffs, q),
            [it EXCEPT !.season_type = 3, !.is_playoffs = TRUE,
                       !.is_aggregation = TRUE])
    ELSE St(q, it)

\* 5.3 Super Bowl
SuperBowlRule(q, it) ==
    IF Found(RSuperBowl, q)
    THEN St(Sub(RSuperBowl, q),
            [it EXCEPT !.season_type = 3, !.is_playoffs = TRUE,
                       !.is_superbowl = TRUE])
    ELSE St(q, it)

\* 3.5 rookie year
RookieRule(q, it) ==
    IF Found(RRookie, q)
    THEN St(Sub(RRookie, q), [it EXCEPT !.is_rookie = TRUE])
    ELSE St(q, it)

\* 3.6 career
CareerRule(q, it) ==
    IF Found(RCareer, q)
    THEN St(Sub(RCareer, q),
            [it EXCEPT !.is_career = TRUE, !.is_aggregation = TRUE])
    ELSE St(q, it)

\* round_map
RoundMap(text) ==
    CASE text \in {"first", "1st"} -> 1
      [] text \in {"second", "2nd"} -> 2
      [] text \in {"third", "3rd"} -> 3
      [] text \in {"fourth", "4th"} -> 4
      [] text \in {"fifth", "5th"} -> 5
      [] text \in {"sixth", "6th"} -> 6
      [] text \in {"seventh", "7th"} -> 7

\* 3.7 draft, with the ordinal round
DraftRule(q, it) ==
    IF Found(RDraft, q)
    THEN LET round_match == Search(RDraftRound, q)
         IN IF round_match.found
            THEN St(Sub(RDraft, Sub(RDraftRound, q)),
                    [it EXCEPT !.is_draft = TRUE,
                               !.draft_round =
                                   RoundMap(Lower(Group(round_match, q, 1)))])
            ELSE St(Sub(RDraft, q), [it EXCEPT !.is_draft = TRUE])
    ELSE St(q, it)

\* 3.8 biography
BioRule(q, it) ==
    IF Found(RBio, q)
    THEN St(Sub(RBio, q), [it EXCEPT !.is_bio = TRUE])
    ELSE St(q, it)

\* 3.9 injury
InjuryRule(q, it) ==
    IF Found(RInjury, q)
    THEN St(Sub(RInjury, q), [it EXCEPT !.is_injury = TRUE])
    ELSE St(q, it)

\* 3.10 trending
TrendingRule(q, it) ==
    IF Found(RTrending, q)
    THEN St(Sub(RTrending, q), [it EXCEPT !.is_trending = TRUE])
    ELSE St(q, it)

\* 3.10b fantasy points
FantasyRule(q, it) ==
    IF Found(RFantasy, q)
    THEN St(Sub(RFantasy, q), [it EXCEPT !.is_fantasy_points = TRUE])
    ELSE St(q, it)

(***************************************************************************)
(* Team context: nickname table, official names with the "meaningful text  *)
(* remains" guard, fuzzy fallback.                                         *)
(***************************************************************************)
\* the words of ws removed one after the other, each as \bword\b
RECURSIVE RemoveWords(_, _, _, _)
RemoveWord(ws, k, hi, s) ==
    IF k = 0 THEN s ELSE RemoveWords(ws, k + 1, hi, Sub(WordPattern(ws[k]), s))

\* a word that is not in the text leaves the text as it is, so the loop
\* moves from one word that is in the text to the next one that is
RemoveWords(ws, lo, hi, s) ==
    RemoveWord(ws, FirstIndex(lo, hi, LAMBDA k : Found(WordPattern(ws[k]), s)),
               hi, s)

\* the guard: text is left once the stopwords_check words are gone
LeavesContent(temp_query) ==
    Strip(RemoveWords(StopwordsCheck, 1, Len(StopwordsCheck), temp_query)) # ""

\* the first nickname among lo..hi that is in the text, 0 when none is
FirstNickname(q, lo, hi) ==
    FirstIndex(lo, hi, LAMBDA k : Found(WordPattern(TeamNicknames[k][1]), q))

NicknameLoop(q, it) ==
    LET k == FirstNickname(q, 1, Len(TeamNicknames))
    IN IF k = 0 THEN St(q, it)
       ELSE St(Sub(WordPattern(TeamNicknames[k][1]), q),
               [it EXCEPT !.team_context = TeamNicknames[k][2]])

\* 3.0 nickname table first
NicknameRule(q, it) == NicknameLoop(q, it)

\* the n-th pattern the loops try: full name, nickname and abbreviation of
\* each team in turn, longest team name first
TeamOfPattern(n) == SortedTeams[((n - 1) \div 3) + 1]

TeamPattern(n) ==
    LET team == TeamOfPattern(n)
    IN CASE (n - 1) % 3 = 0 -> WordPattern(team.name)
         [] (n - 1) % 3 = 1 -> WordPattern(LastWord(team.name))
         [] (n - 1) % 3 = 2 -> WordPattern(team.abbr)

\* the pattern is in the query and removing it leaves content
TeamHit(q, n) ==
    Found(TeamPattern(n), q) /\ LeavesContent(Strip(Sub(TeamPattern(n), q)))

\* the first pattern among lo..hi that hits, 0 when none does
FirstTeamHit(q, lo, hi) == FirstIndex(lo, hi, LAMBDA n : TeamHit(q, n))

OfficialLoop(q, it) ==
    LET n == FirstTeamHit(q, 1, 3 * Len(SortedTeams))
    IN IF n = 0 THEN St(q, it)
       ELSE St(Strip(Sub(TeamPattern(n), q)),
               [it EXCEPT !.team_context = TeamOfPattern(n).abbr])

\* official names, unless the team is all there is in the query
OfficialRule(q, it) ==
    IF it.team_context = "None" THEN OfficialLoop(q, it) ELSE St(q, it)

\* str.split(): the maximal runs of non-blank characters
WordStarts(s) ==
    {i \in 1..Len(s) : /\ Ch(s, i) \notin SpaceChars
                        /\ (i = 1 \/ Ch(s, i - 1) \in SpaceChars)}

\* the last character of the word that starts at i
WordEnd(s, i) ==
    Least({j \in i..Len(s) : j = Len(s) \/ Ch(s, j + 1) \in SpaceChars})

\* the k-th smallest element of xs
Nth(xs, k) == CHOOSE x \in xs : Cardinality({y \in xs : y < x}) = k - 1

WordsAt(s, starts) ==
    [k \in 1..Cardinality(starts) |->
        SubSeq(s, Nth(starts, k), WordEnd(s, Nth(starts, k)))] \o << >>

SplitWords(s) == WordsAt(s, WordStarts(s))

Max(a, b) == IF a >= b THEN a ELSE b
Min(a, b) == IF a <= b THEN a ELSE b

\* the greatest element of a non-empty set of integers
Greatest(xs) == CHOOSE x \in xs : \A y \in xs : x >= y

\* one row of the longest-common-subsequence table; cur[j + 1] is the
\* length for the first j characters of b: the character c is left out, or
\* it is paired with one of its occurrences among these characters
LcsRow(prev, c, b) ==
    [t \in 1..(Len(b) + 1) |->
        Greatest({prev[t]} \cup {prev[k] + 1 : k \in {k \in 1..(t - 1) : Ch(b, k) = c}})]
       \o << >>

\* the rows for the characters lo..hi of a
RECURSIVE LcsFrom(_, _, _, _, _)
LcsFrom(prev, a, b, lo, hi) ==
    IF Len(prev) < 0 THEN prev
    ELSE IF lo = hi THEN LcsRow(prev, Ch(a, lo), b)
    ELSE LcsFrom(LcsFrom(prev, a, b, lo, (lo + hi) \div 2),
                 a, b, ((lo + hi) \div 2) + 1, hi)

Lcs(a, b) ==
    IF Len(a) = 0 THEN 0
    ELSE LcsFrom([j \in 1..(Len(b) + 1) |-> 0] \o << >>, a, b, 1, Len(a))[Len(b) + 1]

\* rapidfuzz fuzz.ratio: the normalized Indel similarity, in percent
Ratio(a, b) ==
    IF Len(a) + Len(b) = 0 THEN Frac(100, 1)
    ELSE Frac(200 * Lcs(a, b), Len(a) + Len(b))

FuzzyMinWordLength == 4
FuzzyScoreCutoff == 65

\* the similarity cannot reach the cutoff when even a common subsequence
\* as long as the shorter text falls short of it
CanReach(a, b, cutoff) ==
    200 * Min(Len(a), Len(b)) >= cutoff * (Len(a) + Len(b))

\* the score of a choice, zero when it falls short of the cutoff
Scored(word, choices, cutoff, k) ==
    LET score == IF CanReach(word, choices[k], cutoff)
                 THEN Ratio(word, choices[k]) ELSE FZero
    IN IF FGe(score, FInt(cutoff)) THEN [idx |-> k, score |-> score]
       ELSE [idx |-> 0, score |-> FZero]

\* the first choice with the best score among the scored choices
BestScored(scored) ==
    FirstIndex(1, Len(scored),
               LAMBDA k : /\ scored[k].idx # 0
                          /\ \A j \in 1..Len(scored) :
                                 scored[j].idx = 0
                                    \/ ~FGt(scored[j].score, scored[k].score))

\* rapidfuzz process.extractOne: index of the first choice with the best
\* score among those reaching the cutoff, 0 when there is none
ExtractOne(word, choices, cutoff) ==
    BestScored([k \in 1..Len(choices) |-> Scored(word, choices, cutoff, k)]
                  \o << >>)

\* team_variants: nickname, abbreviation and full name of every team
TeamVariants ==
    [n \in 1..(3 * Len(SortedTeams)) |->
        LET team == SortedTeams[((n - 1) \div 3) + 1]
        IN [text |-> CASE (n - 1) % 3 = 0 -> LastWord(team.name)
                       [] (n - 1) % 3 = 1 -> team.abbr
                       [] (n - 1) % 3 = 2 -> team.name,
            abbr |-> team.abbr]]

TeamVariantTexts == [n \in 1..Len(TeamVariants) |-> TeamVariants[n].text]

\* the word is long enough, is no skip word, resembles a team, and the
\* query keeps content without it
FuzzyHit(q, word) ==
    /\ Len(word) >= FuzzyMinWordLength
    /\ Lower(word) \notin FuzzySkipWords
    /\ ExtractOne(word, TeamVariantTexts, FuzzyScoreCutoff) # 0
    /\ LeavesContent(Strip(Sub(WordPattern(word), q)))

FuzzyTake(q, it, words, hit) ==
    IF hit = 0 THEN St(q, it)
    ELSE St(Strip(Sub(WordPattern(words[hit]), q)),
            [it EXCEPT !.team_context =
                TeamVariants[ExtractOne(words[hit], TeamVariantTexts,
                                        FuzzyScoreCutoff)].abbr])

\* the words from the k-th on, the first hit taken
FuzzyLoop(q, it, words, k) ==
    FuzzyTake(q, it, words,
              FirstIndex(k, Len(words), LAMBDA n : FuzzyHit(q, words[n])))

\* fuzzy fallback for misspelt team names
FuzzyRule(q, it) ==
    IF it.team_context = "None" THEN FuzzyLoop(q, it, SplitWords(q), 1)
    ELSE St(q, it)

(***************************************************************************)
(* Roster, awards, game context, thresholds.                               *)
(***************************************************************************)
UpperCh(c) ==
    IF c \in Range(LowerCase)
    THEN UpperCase[CHOOSE k \in 1..Len(LowerCase) : LowerCase[k] = c]
    ELSE c

\* str.upper()
RECURSIVE UpperRange(_, _, _)
UpperRange(s, lo, hi) ==
    IF lo > hi THEN ""
    ELSE IF lo = hi THEN UpperCh(Ch(s, lo))
    ELSE UpperRange(s, lo, (lo + hi) \div 2)
            \o UpperRange(s, ((lo + hi) \div 2) + 1, hi)

Upper(s) == UpperRange(s, 1, Len(s))

\* 3.11 depth-numbered position (wr2, qb1)
DepthRule(q, it) ==
    LET depth_position_match == Search(RDepth, q)
    IN IF depth_position_match.found
       THEN St(Sub(Cat(<<B, Lit(Lower(Group(depth_position_match, q, 1))), D, B>>), q),
               [it EXCEPT !.is_roster = TRUE,
                          !.roster_position = Upper(Group(depth_position_match, q, 1)),
                          !.roster_depth = DigitsVal(Group(depth_position_match, q, 2))])
       ELSE St(q, it)

\* the first position keyword among lo..hi that is in the text, 0 when none
FirstPosition(q, lo, hi) ==
    FirstIndex(lo, hi, LAMBDA k : Found(WordPattern(PositionKeywords[k][1]), q))

\* the abbreviation of the first position keyword in the text, else "None"
FoundPosition(q) ==
    LET k == FirstPosition(q, 1, Len(PositionKeywords))
    IN IF k = 0 THEN "None" ELSE PositionKeywords[k][2]

\* the keywords of the position abbr, in the order of the table
KeywordsOf(abbr) ==
    LET entries == SelectSeq(PositionKeywords, LAMBDA entry : entry[2] = abbr)
    IN [k \in 1..Len(entries) |-> entries[k][1]]

\* every keyword of the position abbr removed
RemovePosition(q, abbr) == RemoveWords(KeywordsOf(abbr), 1, Len(KeywordsOf(abbr)), q)

\* roster keyword, or team context plus a position
RosterRule(q, it) ==
    IF it.is_roster THEN St(q, it)
    ELSE LET found_position == FoundPosition(q)
         IN IF Found(RRosterKeyword, q)
                  \/ (it.team_context # "None" /\ found_position # "None")
            THEN IF found_position # "None"
                 THEN St(Sub(RRosterKeyword,
                             RemovePosition(q, found_position)),
                         [it EXCEPT !.is_roster = TRUE,
                                    !.roster_position = found_position])
                 ELSE St(Sub(RRosterKeyword, q), [it EXCEPT !.is_roster = TRUE])
            ELSE St(q, it)

AwardType(q) ==
    IF Found(RMvp, q) THEN "MVP"
    ELSE IF Found(ROpoy, q) THEN "OPOY"
    ELSE IF Found(RDpoy, q) THEN "DPOY"
    ELSE IF Found(ROroy, q) THEN "OROY"
    ELSE IF Found(RDroy, q) THEN "DROY"
    ELSE IF Found(RProBowl, q) THEN "Pro Bowl"
    ELSE IF Found(RAllPro, q) THEN "All-Pro"
    ELSE IF Found(RHallOfFame, q) THEN "Hall of Fame"
    ELSE "None"

\* 3.12 awards
AwardsRule(q, it) ==
    IF Found(RAwards, q)
    THEN St(Sub(RAwardsRemove, q),
            [it EXCEPT !.is_awards = TRUE,
                       !.award_type = AwardType(q),
                       !.award_year_query = Found(RAwardWhen, q)])
    ELSE St(q, it)

\* variant: the round is recorded without the postseason season type
GameTypeRuleKeepsSeasonType(q, it) ==
    IF Found(RChampionship, q)
    THEN St(Sub(RChampionship, q),
            [it EXCEPT !.game_type = "championship", !.is_playoffs = TRUE])
    ELSE IF Found(RDivisional, q)
    THEN St(Sub(RDivisional, q),
            [it EXCEPT !.game_type = "divisional", !.is_playoffs = TRUE])
    ELSE IF Found(RWildCard, q)
    THEN St(Sub(RWildCard, q),
            [it EXCEPT !.game_type = "wildcard", !.is_playoffs = TRUE])
    ELSE St(q, it)

\* 3.7 game context: championship, else divisional, else wild card
GameTypeRule(q, it) ==
    IF Found(RChampionship, q)
    THEN St(Sub(RChampionship, q),
            [it EXCEPT !.game_type = "championship", !.is_playoffs = TRUE,
                       !.season_type = 3])
    ELSE IF Found(RDivisional, q)
    THEN St(Sub(RDivisional, q),
            [it EXCEPT !.game_type = "divisional", !.is_playoffs = TRUE,
                       !.season_type = 3])
    ELSE IF Found(RWildCard, q)
    THEN St(Sub(RWildCard, q),
            [it EXCEPT !.game_type = "wildcard", !.is_playoffs = TRUE,
                       !.season_type = 3])
    ELSE St(q, it)

MonthTake(q, it, k) ==
    IF k = 0 THEN St(q, it)
    ELSE St(Sub(WordPattern(Months[k]), q), [it EXCEPT !.month_filter = Months[k]])

\* the months from the k-th on, the first one in the text taken
MonthLoop(q, it, k) ==
    MonthTake(q, it, FirstIndex(k, Len(Months),
                                LAMBDA n : Found(WordPattern(Months[n]), q)))

\* month filter
MonthRule(q, it) == MonthLoop(q, it, 1)

\* prime time
PrimeTimeRule(q, it) ==
    IF Found(RPrimeTime, q)
    THEN St(Sub(RPrimeTime, q), [it EXCEPT !.prime_time = TRUE])
    ELSE St(q, it)

\* quarter_map
QuarterMap(text) ==
    CASE text \in {"1st", "first"} -> 1
      [] text \in {"2nd", "second"} -> 2
      [] text \in {"3rd", "third"} -> 3
      [] text \in {"4th", "fourth"} -> 4

\* quarter filter
QuarterRule(q, it) ==
    LET quarter_match == Search(RQuarter, q)
    IN IF quarter_match.found
       THEN St(Sub(RQuarter, q),
               [it EXCEPT !.quarter_filter =
                              QuarterMap(Lower(Group(quarter_match, q, 1)))])
       ELSE St(q, it)

\* 4. aggregation keywords
AggregationRule(q, it) ==
    IF Found(RAggregation, q)
    THEN St(Sub(RAggregation, q), [it EXCEPT !.is_aggregation = TRUE])
    ELSE St(q, it)

\* stat_type_map
StatTypeMap(play_type) ==
    CASE play_type \in {"catch", "reception"} -> "receiving"
      [] play_type \in {"run", "rush"} -> "rushing"
      [] play_type = "pass" -> "passing"
      [] OTHER -> "any"

\* 4.3 longest play
LongestRule(q, it) ==
    LET longest_match == Search(RLongest, q)
    IN IF longest_match.found
       THEN St(Sub(RLongest, q),
               [it EXCEPT !.is_longest = TRUE,
                          !.longest_type =
                              StatTypeMap(Lower(Group(longest_match, q, 2)))])
       ELSE St(q, it)

\* stat_map.get(stat_type, stat_type)
StatMap(stat_type) ==
    CASE stat_type \in {"yard", "yds"} -> "yards"
      [] stat_type \in {"td", "touchdown"} -> "touchdowns"
      [] stat_type \in {"reception", "rec"} -> "receptions"
      [] stat_type = "sack" -> "sacks"
      [] stat_type = "tackle" -> "tackles"
      [] stat_type \in {"int", "interception"} -> "interceptions"
      [] OTHER -> stat_type

MultipleThreshold == 2

\* 4.5 threshold "N+ stat", else "multiple stat"
ThresholdRule(q, it) ==
    LET threshold_match == Search(RThreshold, q)
        multi_match == Search(RMultipleMatch, q)
    IN IF threshold_match.found
       THEN St(Sub(RThresholdRemove, q),
               [it EXCEPT !.threshold =
                   [value |-> DigitsVal(Group(threshold_match, q, 1)),
                    stat |-> StatMap(Lower(Group(threshold_match, q, 2)))]])
       ELSE IF Found(RMultiple, q) /\ multi_match.found
       THEN St(Sub(RMultipleRemove, q),
               [it EXCEPT !.threshold =
                   [value |-> MultipleThreshold,
                    stat |-> StatMap(Lower(Group(multi_match, q, 1)))]])
       ELSE St(q, it)

(***************************************************************************)
(* League leaders, comparison versus opponent, position groups, clean-up.  *)
(***************************************************************************)
\* stat_patterns, in the order of the dictionary
StatPatterns ==
    << <<"passing_touchdowns", RPassingTouchdowns>>,
       <<"rushing_touchdowns", RRushingTouchdowns>>,
       <<"receiving_touchdowns", RReceivingTouchdowns>>,
       <<"passing_yards", RPassingYards>>,
       <<"rushing_yards", RRushingYards>>,
       <<"receiving_yards", RReceivingYards>>,
       <<"receptions", RReceptions>>,
       <<"interceptions", RInterceptions>>,
       <<"sacks", RSacks>>,
       <<"tackles", RTackles>>,
       <<"passes_defended", RPassesDefended>> >>

StatCategoryTake(q, it, k) ==
    IF k = 0 THEN St(q, it)
    ELSE St(Sub(StatPatterns[k][2], q),
            [it EXCEPT !.stat_category = StatPatterns[k][1]])

\* the stat patterns from the k-th on, the first one in the text taken
StatCategoryLoop(q, it, k) ==
    StatCategoryTake(q, it, FirstIndex(k, Len(StatPatterns),
                                       LAMBDA n : Found(StatPatterns[n][2], q)))

\* 5. league leaders: limit, stat category, leader keywords
LeadersBranch(q, it) ==
    LET limit_match == Search(RLimit, q)
        limited == IF limit_match.found
                   THEN St(Sub(RLimit, q),
                           [it EXCEPT !.is_league_leaders = TRUE,
                                      !.limit = DigitsVal(Group(limit_match, q, 1))])
                   ELSE St(q, [it EXCEPT !.is_league_leaders = TRUE])
        classified == StatCategoryLoop(limited.q, limited.it, 1)
    IN St(Sub(RLeaderWords, classified.q), classified.it)

\* the team whose nickname or abbreviation is the text, 0 when there is none
OpponentTeam(text, k) ==
    FirstIndex(k, Len(Teams),
               LAMBDA n : \/ Lower(text) = Lower(LastWord(Teams[n].name))
                          \/ Lower(text) = Lower(Teams[n].abbr))

\* re.split: the texts left of, between and right of the matches
RECURSIVE SplitFrom(_, _, _, _, _)
SplitNext(next, starts, r, s, ls, i) ==
    IF next = {} THEN <<SubSeq(s, i + 1, Len(s))>>
    ELSE <<SubSeq(s, i + 1, Least(next))>>
            \o SplitFrom(starts, r, s, ls, EndAt(r, ls, Least(next)))

\* the pieces from the offset i on; starts are the offsets of the matches
SplitFrom(starts, r, s, ls, i) ==
    SplitNext({h \in starts : h >= i}, starts, r, s, ls, i)

SplitIn(r, s, ls) ==
    IF Len(ls) < 0 THEN << >>
    ELSE SplitFrom(Starts(r, ls, 0, Len(s) - 1, TRUE), r, s, ls, 0)

Split(r, s) == SplitIn(r, s, Lower(s))

\* variant: the pieces are kept with their surrounding blanks
ComparisonPlayersUntrimmed(pieces) ==
    IF Len(pieces) >= 2
    THEN (IF Strip(pieces[1]) # "" THEN <<pieces[1]>> ELSE << >>)
            \o (IF Strip(pieces[2]) # "" THEN <<pieces[2]>> ELSE << >>)
    ELSE << >>

\* [p.strip() for p in comparison_split[:2] if p.strip()]
ComparisonPlayers(pieces) ==
    IF Len(pieces) >= 2
    THEN (IF Strip(pieces[1]) # "" THEN <<Strip(pieces[1])>> ELSE << >>)
            \o (IF Strip(pieces[2]) # "" THEN <<Strip(pieces[2])>> ELSE << >>)
    ELSE << >>

\* 5.5 "vs": an opponent when the phrase to the right names a team, else
\* a comparison of two players
ComparisonBranch(q, it) ==
    LET opponent_match == Search(ROpponent, q)
        potential_opponent == Strip(Group(opponent_match, q, 1))
        team == IF opponent_match.found THEN OpponentTeam(potential_opponent, 1)
                ELSE 0
    IN IF team # 0
       THEN St(Sub(Cat(<<ROpponentLead, Lit(Lower(potential_opponent)), B>>), q),
               [it EXCEPT !.opponent_team = Teams[team].abbr])
       ELSE St(Sub(RComparisonRemove, q),
               [it EXCEPT !.is_comparison = TRUE,
                          !.comparison_players =
                              ComparisonPlayers(Split(RComparisonSplit, q))])

\* league leaders, else comparison
LeadersOrComparisonRule(q, it) ==
    IF Found(RLeaders, q) THEN LeadersBranch(q, it)
    ELSE IF Found(RComparison, q) THEN ComparisonBranch(q, it)
    ELSE St(q, it)

MultiPlayerTake(q, it, k) ==
    IF k = 0 THEN St(q, it)
    ELSE St(Sub(WordPattern(PositionPatterns[k][1]), q),
            [it EXCEPT !.multi_player = PositionPatterns[k][1]])

\* the position groups from the k-th on, the first one in the text taken
MultiPlayerLoop(q, it, k) ==
    MultiPlayerTake(q, it,
                    FirstIndex(k, Len(PositionPatterns),
                               LAMBDA n : Found(WordPattern(PositionPatterns[n][1]), q)))

\* 6. position groups
MultiPlayerRule(q, it) == MultiPlayerLoop(q, it, 1)

\* CleanupRule that keeps the blanks around the text
CleanupRuleUnstripped(q, it) ==
    LET cleaned == Sub(RNumber, RemoveWords(Stopwords, 1, Len(Stopwords), q))
    IN St(cleaned, [it EXCEPT !.clean_query = cleaned])

\* 7. stopwords, standalone numbers, surrounding blanks
CleanupRule(q, it) ==
    LET cleaned == Strip(Sub(RNumber, RemoveWords(Stopwords, 1, Len(Stopwords), q)))
    IN St(cleaned, [it EXCEPT !.clean_query = cleaned])

\* parse_query as one function of the text
Pipeline ==
    <<"p_year", "p_week", "p_playoffs", "p_superbowl", "p_rookie", "p_career",
      "p_draft", "p_bio", "p_injury", "p_trending", "p_fantasy", "p_nickname",
      "p_official", "p_fuzzy", "p_depth", "p_roster", "p_awards", "p_gametype",
      "p_month", "p_primetime", "p_quarter", "p_aggregation", "p_longest",
      "p_threshold", "p_leaders", "p_multi", "p_cleanup", "p_done">>

\* the position after a rule
NextPc(p) == Pipeline[(CHOOSE k \in 1..Len(Pipeline) : Pipeline[k] = p) + 1]

\* the outcome of a rule becomes the working text and the intent, and the
\* pipeline moves to the next rule
Advance(r) ==
    /\ query' = r.q
    /\ intent' = r.it
    /\ pc' = NextPc(pc)
    /\ UNCHANGED <<games, headers, aggVars, gi, result, thrVars, searchVars,
                   mainVars, careerVars>>

\* January (before the March rollover) and September
Clocks ==
    {[year |-> 2026, month |-> 1], [year |-> 2026, month |-> 2],
     [year |-> 2026, month |-> 3], [year |-> 2026, month |-> 9]}

\* the year rule; datetime.now() is read in the relative-year branches only
PYear ==
    /\ pc = "p_year"
    /\ \E clock \in Clocks :
          /\ now' = IF ReadsClock(query) THEN clock ELSE now
          /\ Advance(YearRule(query, intent, clock))

PWeek ==
    /\ pc = "p_week"
    /\ Advance(WeekRule(query, intent))
    /\ UNCHANGED now

PPlayoffs ==
    /\ pc = "p_playoffs"
    /\ Advance(PlayoffsRule(query, intent))
    /\ UNCHANGED now

PSuperBowl ==
    /\ pc = "p_superbowl"
    /\ Advance(SuperBowlRule(query, intent))
    /\ UNCHANGED now

PRookie ==
    /\ pc = "p_rookie"
    /\ Advance(RookieRule(query, intent))
    /\ UNCHANGED now

PCareer ==
    /\ pc = "p_career"
    /\ Advance(CareerRule(query, intent))
    /\ UNCHANGED now

PDraft ==
    /\ pc = "p_draft"
    /\ Advance(DraftRule(query, intent))
    /\ UNCHANGED now

PBio ==
    /\ pc = "p_bio"
    /\ Advance(BioRule(query, intent))
    /\ UNCHANGED now

PInjury ==
    /\ pc = "p_injury"
    /\ Advance(InjuryRule(query, intent))
    /\ UNCHANGED now

PTrending ==
    /\ pc = "p_trending"
    /\ Advance(TrendingRule(query, intent))
    /\ UNCHANGED now

PFantasy ==
    /\ pc = "p_fantasy"
    /\ Advance(FantasyRule(query, intent))
    /\ UNCHANGED now

PNickname ==
    /\ pc = "p_nickname"
    /\ Advance(NicknameRule(query, intent))
    /\ UNCHANGED now

POfficial ==
    /\ pc = "p_official"
    /\ Advance(OfficialRule(query, intent))
    /\ UNCHANGED now

PFuzzy ==
    /\ pc = "p_fuzzy"
    /\ Advance(FuzzyRule(query, intent))
    /\ UNCHANGED now

PDepth ==
    /\ pc = "p_depth"
    /\ Advance(DepthRule(query, intent))
    /\ UNCHANGED now

PRoster ==
    /\ pc = "p_roster"
    /\ Advance(RosterRule(query, intent))
    /\ UNCHANGED now

PAwards ==
    /\ pc = "p_awards"
    /\ Advance(AwardsRule(query, intent))
    /\ UNCHANGED now

PGameType ==
    /\ pc = "p_gametype"
    /\ Advance(GameTypeRule(query, intent))
    /\ UNCHANGED now

PMonth ==
    /\ pc = "p_month"
    /\ Advance(MonthRule(query, intent))
    /\ UNCHANGED now

PPrimeTime ==
    /\ pc = "p_primetime"
    /\ Advance(PrimeTimeRule(query, intent))
    /\ UNCHANGED now

PQuarter ==
    /\ pc = "p_quarter"
    /\ Advance(QuarterRule(query, intent))
    /\ UNCHANGED now

PAggregation ==
    /\ pc = "p_aggregation"
    /\ Advance(AggregationRule(query, intent))
    /\ UNCHANGED now

PLongest ==
    /\ pc = "p_longest"
    /\ Advance(LongestRule(query, intent))
    /\ UNCHANGED now

PThreshold ==
    /\ pc = "p_threshold"
    /\ Advance(ThresholdRule(query, intent))
    /\ UNCHANGED now

PLeaders ==
    /\ pc = "p_leaders"
    /\ Advance(LeadersOrComparisonRule(query, intent))
    /\ UNCHANGED now

PMulti ==
    /\ pc = "p_multi"
    /\ Advance(MultiPlayerRule(query, intent))
    /\ UNCHANGED now

PCleanup ==
    /\ pc = "p_cleanup"
    /\ Advance(CleanupRule(query, intent))
    /\ UNCHANGED now


NextParse ==
    \/ PYear \/ PWeek \/ PPlayoffs \/ PSuperBowl \/ PRookie \/ PCareer
    \/ PDraft \/ PBio \/ PInjury \/ PTrending \/ PFantasy
    \/ PNickname \/ POfficial \/ PFuzzy
    \/ PDepth \/ PRoster \/ PAwards \/ PGameType \/ PMonth \/ PPrimeTime
    \/ PQuarter \/ PAggregation \/ PLongest \/ PThreshold \/ PLeaders
    \/ PMulti \/ PCleanup

\* the variables of the other operations while parse_query runs
ParseIdle ==
    /\ games = << >>
    /\ headers = << >>
    /\ unique_headers = << >>
    /\ sums = EmptyFn
    /\ maxes = EmptyFn
    /\ counts = EmptyFn
    /\ gi = 0
    /\ result = NoResult
    /\ threshold_stat = ""
    /\ threshold_value = 0
    /\ position = "None"
    /\ count = 0

\* the phrases queries are built from
Vocabulary ==
    <<"mahomes", "vs", "bills", "Super Bowl", "wild card", "last season",
      "2023">>

MaxWords == 2

RECURSIVE Join(_)
Join(ws) ==
    IF Len(ws) = 0 THEN ""
    ELSE IF Len(ws) = 1 THEN ws[1]
    ELSE ws[1] \o " " \o Join(Tail(ws))

\* up to MaxWords phrases separated by blanks
PhraseQueries ==
    {Join(ws) : ws \in UNION {[1..n -> Range(Vocabulary)] : n \in 0..MaxWords}}

\* "<player text> vs <team nickname or abbreviation>"
VsPlayers == {"mahomes", "josh allen"}
VsTokens == {"vs", "versus", "against"}
VsTeams == {k \in 1..Len(Teams) : Teams[k].abbr \in {"BUF", "KC"}}

\* the nickname and the abbreviation of each of these teams
VsTeamTexts ==
    UNION {{[text |-> Lower(LastWord(Teams[k].name)), abbr |-> Teams[k].abbr],
            [text |-> Teams[k].abbr, abbr |-> Teams[k].abbr]} : k \in VsTeams}

VsQueries ==
    {[text |-> player \o " " \o token \o " " \o team.text, abbr |-> team.abbr] :
        player \in VsPlayers, token \in VsTokens, team \in VsTeamTexts}

\* one query or more for every rule of the pipeline
SampleQueries ==
    {"josh allen 2023 week 5", "mahomes vs allen", "2024 chiefs roster",
     "who is the starting qb for the chiefs", "chiefs wr2", "bucs",
     "top 5 rushing yards leaders this season", "cheifs receivers",
     "kelce longest reception in december", "mahomes games with 300+ yards",
     "mahomes 4th quarter monday night", "who won mvp in 2022",
     "lamar jackson playoffs average", "bijan robinson rookie year",
     "tom brady career stats", "first round draft picks",
     "how tall is josh allen", "is kelce injured", "trending players",
     "mahomes fantasy points", "niners tight ends", "afc championship sb"}

\* "<name A> vs <name B>"
CompareLeft == {"mahomes", "josh allen", "colt mccoy"}
CompareRight == {"allen", "patrick mahomes"}

CompareQueries ==
    {[text |-> a \o " " \o token \o " " \o b, a |-> a, b |-> b] :
        a \in CompareLeft, token \in VsTokens, b \in CompareRight}

\* "<name> week <N>"
WeekNumbers == {0, 1, 5, 22, 23, 25, 100}

WeekQueries == {"mahomes week " \o IntToStr(n) : n \in WeekNumbers}

\* "<name> this|current|last|previous year|season"
RelativeQueries ==
    {"mahomes " \o which \o " " \o unit :
        which \in {"this", "current", "last", "previous"},
        unit \in {"year", "season"}}

\* "top <N> <noun>"
TopQueries ==
    {[text |-> "top " \o IntToStr(n) \o " " \o noun, n |-> n] :
        n \in {5, 10},
        noun \in {"sacks", "rushing yards", "receiving touchdowns",
                  "passing tds", "quarterbacks"}}

\* league-leader questions about touchdowns
TouchdownQueries ==
    {"who has the most passing tds", "most rushing touchdowns",
     "most passing yards and rushing touchdowns", "best rec td"}

\* text that no rule recognises, with and without blanks around it
PlainQueries == {"  Mahomes ", "josh allen", " "}

Queries ==
    PhraseQueries \cup {v.text : v \in VsQueries} \cup SampleQueries
        \cup {c.text : c \in CompareQueries} \cup WeekQueries
        \cup RelativeQueries \cup {t.text : t \in TopQueries}
        \cup TouchdownQueries \cup PlainQueries

InitParse ==
    /\ pc = "p_year"
    /\ query \in Queries
    /\ intent = DefaultIntent(query)
    /\ now = NoClock
    /\ ParseIdle
    /\ SearchIdle
    /\ MainIdle
    /\ CareerIdle

SpecParse == InitParse /\ [][NextParse]_vars

(***************************************************************************)
(* Claims about parse_query.                                               *)
(***************************************************************************)
\* a is b with characters deleted
RECURSIVE IsSubsequenceFrom(_, _, _, _)
IsSubsequenceFrom(a, b, i, j) ==
    IF i > Len(a) THEN TRUE
    ELSE IF j > Len(b) THEN FALSE
    ELSE IF Ch(a, i) = Ch(b, j) THEN IsSubsequenceFrom(a, b, i + 1, j + 1)
    ELSE IsSubsequenceFrom(a, b, i, j + 1)

IsSubsequence(a, b) == IsSubsequenceFrom(a, b, 1, 1)

\* C8: in every returned Intent season_type is 2 (Regular) or 3 (Postseason),
\* and whenever game_type is set or is_superbowl is true, is_playoffs is true
\* and season_type is 3.
C8_SeasonType ==
    pc = "p_done" =>
        /\ intent.season_type \in {2, 3}
        /\ (intent.game_type # "None" \/ intent.is_superbowl) =>
               (intent.is_playoffs /\ intent.season_type = 3)

\* a returned Intent of a wild card query that names no other postseason word
C8_Witness ==
    /\ pc = "p_done"
    /\ intent.game_type = "wildcard"
    /\ ~intent.is_superbowl
    /\ intent.season_type = 3
    /\ intent.is_playoffs

\* C9: the returned clean_query is the original text with characters deleted,
\* and so is the working text after every rule of the pipeline: no rule
\* inserts or rewrites text.
C9_CleanQueryOnlyDeletes ==
    /\ IsSubsequence(query, intent.original_query)
    /\ pc = "p_done" =>
           IsSubsequence(intent.clean_query, intent.original_query)

\* a returned clean_query that kept some of the text and lost an explicit year
C9_Witness ==
    /\ pc = "p_done"
    /\ intent.clean_query # ""
    /\ intent.season = "2023"
    /\ Len(intent.clean_query) < Len(intent.original_query)

\* C10: for "<player text> vs <team nickname or abbreviation>" the returned
\* Intent has opponent_team equal to that team and is_comparison false.
C10_VsTeamIsOpponent ==
    \A v \in VsQueries :
        (pc = "p_done" /\ intent.original_query = v.text) =>
            (intent.opponent_team = v.abbr /\ ~intent.is_comparison)

ExplicitYear(text) ==
    LET year_match == Search(RYear, text)
    IN IF year_match.found THEN Group(year_match, text, 1) ELSE "None"

\* TRUE iff piece occurs in text
Occurs(piece, text) == Replace(text, piece, "") # text

\* the positions of parse_query at which a team or roster rule is about to run
TeamOrRosterSteps == {"p_nickname", "p_official", "p_fuzzy", "p_roster"}

\* C12: the year rule runs before the team-context and roster rules: whenever
\* a team or roster rule is about to run on a query with an explicit year
\* 20xx, season is already that year and the year is no longer in the working
\* text; for "2024 chiefs roster" team and roster matching start from
\* "chiefs roster" (with the blank that followed the year) and the result is season "2024", team_context KC,
\* is_roster true.
C12_YearBeforeTeamAndRoster ==
    /\ (pc \in TeamOrRosterSteps /\ ExplicitYear(intent.original_query) # "None") =>
            /\ intent.season = ExplicitYear(intent.original_query)
            /\ ~Occurs(intent.season, query)
    /\ intent.original_query = "2024 chiefs roster" =>
            /\ pc = "p_nickname" => Strip(query) = "chiefs roster"
            /\ pc \in TeamOrRosterSteps => Occurs("roster", query)
            /\ pc = "p_done" =>
                    /\ intent.season = "2024"
                    /\ intent.team_context = "KC"
                    /\ intent.is_roster

\* "2024 chiefs roster" has been parsed: the roster rule has seen a text
\* without the year, and team and roster were found
C12_Witness ==
    /\ pc = "p_done"
    /\ intent.original_query = "2024 chiefs roster"
    /\ intent.season = "2024"
    /\ intent.team_context = "KC"
    /\ intent.is_roster

\* C17: in every Intent returned by parse_query, week is absent or an integer
\* from 1 to 22 ('week N' with any number of digits included).
C17_WeekInRange ==
    pc = "p_done" => (intent.week = -1 \/ intent.week \in 1..22)

\* the season in progress at a clock reading: the calendar year from March
\* on, the year before in January and February
SeasonAt(clock) ==
    CASE clock.month \in {1, 2} -> clock.year - 1
      [] clock.month \in 3..12 -> clock.year

\* C18: with no explicit year in the text, "last/previous year|season" sets
\* season to one less than the season in progress, and "this/current
\* year|season" (in a text without a last/previous phrase) sets it to the
\* season in progress, where the season in progress is the calendar year from
\* March on and the calendar year - 1 in January and February.
C18_RelativeYear ==
    (pc # "p_year" /\ ExplicitYear(intent.original_query) = "None") =>
        /\ Found(RLastYear, intent.original_query) =>
                intent.season = IntToStr(SeasonAt(now) - 1)
        /\ (Found(RThisYear, intent.original_query)
                /\ ~Found(RLastYear, intent.original_query)) =>
                intent.season = IntToStr(SeasonAt(now))

\* "this season" read in February resolved to the previous calendar year
C18_Witness ==
    /\ pc = "p_done"
    /\ intent.original_query = "mahomes this season"
    /\ now = [year |-> 2026, month |-> 2]
    /\ intent.season = "2025"

\* the touchdown categories of the stat table whose pattern occurs in a text
TouchdownsMentioned(text) ==
    {StatPatterns[k][1] : k \in {j \in 1..3 : Found(StatPatterns[j][2], text)}}

\* C19: a query with a league-leader trigger that mentions passing, rushing
\* or receiving touchdowns (or TDs) gets one of the touchdown categories it
\* mentions as stat_category, never a yardage category.
C19_TouchdownsBeforeYards ==
    (/\ pc = "p_done"
     /\ Found(RLeaders, intent.original_query)
     /\ TouchdownsMentioned(intent.original_query) # {}) =>
        intent.stat_category \in TouchdownsMentioned(intent.original_query)

\* C20: a query with a league-leader trigger and the phrase "top N" returns
\* is_league_leaders true and limit N, whatever word follows N; without
\* "top/best/worst N" the limit stays at the default 10.
C20_TopNLimit ==
    pc = "p_done" =>
        /\ \A t \in TopQueries :
              intent.original_query = t.text =>
                  intent.is_league_leaders /\ intent.limit = t.n
        /\ ~Found(RLimit, intent.original_query) => intent.limit = 10

(***************************************************************************)
(* Entity resolution (nfl_stats/search.py).                                *)
(*                                                                         *)
(* fuzz.WRatio belongs to the rapidfuzz library; its value for the text    *)
(* under resolution is an input of the model: wratio.team holds the first  *)
(* best team name and its score, wratio.player the score of every          *)
(* normalized player name, per text.  Players that share a name share the  *)
(* score.  A composite score is a whole number and a fraction over Scale.  *)
(***************************************************************************)
MaxPlayers == 3

\* typo_map, in insertion order
TypoMap ==
    << <<"mahomet", "mahomes">>, <<"mahommes", "mahomes">>,
       <<"mahomez", "mahomes">>, <<"lamar", "lamar jackson">>,
       <<"josh", "josh allen">>, <<"hurts", "jalen hurts">>,
       <<"burrow", "joe burrow">>, <<"kelce", "travis kelce">>,
       <<"brady", "tom brady">>, <<"tyreek", "tyreek hill">>,
       <<"ceedee", "ceedee lamb">>, <<"aj", "aj brown">> >>

\* popular_players
PopularPlayers ==
    << <<"lamar", "jackson">>, <<"josh", "allen">>, <<"hurts", "jalen">>,
       <<"mahomes", "patrick">>, <<"allen", "josh">>, <<"burrow", "joe">>,
       <<"jackson", "lamar">>, <<"kelce", "travis">>, <<"brady", "tom">>,
       <<"rice", "jerry">> >>

\* "piece in text"
Contains(text, piece) == piece = "" \/ Occurs(piece, text)

\* text.startswith(prefix)
StartsWith(text, prefix) ==
    Len(prefix) <= Len(text) /\ SubSeq(text, 1, Len(prefix)) = prefix

\* the typo loop: the first entry whose key occurs in the lowered, stripped
\* text rewrites the text; at most one entry is applied
CorrectTypoTake(q, query_lower, k) ==
    IF k = 0 THEN q ELSE Replace(query_lower, TypoMap[k][1], TypoMap[k][2])

CorrectTypoFrom(q, query_lower, k) ==
    CorrectTypoTake(q, query_lower,
                    FirstIndex(k, Len(TypoMap),
                               LAMBDA n : Contains(query_lower, TypoMap[n][1])))

CorrectTypo(q) == CorrectTypoFrom(q, Strip(Lower(q)), 1)

\* display_name.lower().replace('.', '')
Normalize(text) == Replace(Lower(text), ".", "")

\* query_normalized of search_player
QueryNormalized(q) == Normalize(CorrectTypo(q))

\* process.extract: the indices of the best `limit` scores, best first, equal
\* scores in list order
ExtractRank(sc, i) ==
    Cardinality({j \in DOMAIN sc : sc[j] > sc[i] \/ (sc[j] = sc[i] /\ j < i)}) + 1

Extract(sc, limit) ==
    LET rank == [i \in DOMAIN sc |-> ExtractRank(sc, i)] \o << >>
    IN [r \in 1..Min(limit, Len(sc)) |->
           CHOOSE i \in DOMAIN sc : rank[i] = r] \o << >>

PlayerScoreThreshold == 60
TeamScoreThreshold == 70
Scale == 10000000

StartBonus == 50
ContainsBonus == 20
ActiveBonus == 30
StatusBonus == 10
SkillBonus == 15
QuarterbackBonus == 10
PopularBonus == 100

SkillPositions == {"QB", "WR", "RB", "TE", "K"}

\* relevance_score: similarity plus the bonuses plus id / Scale, as the whole
\* number and the numerator of the fraction over Scale
relevance_score(p, score, query_lower) ==
    LET name_lower == Lower(p.display_name)
        status == Lower(p.status)
        rel == (IF StartsWith(name_lower, query_lower) THEN StartBonus
                ELSE IF Contains(name_lower, query_lower) THEN ContainsBonus
                ELSE 0)
               + (IF status = "active" THEN ActiveBonus
                  ELSE IF status # "" THEN StatusBonus ELSE 0)
               + (IF p.position \in SkillPositions THEN SkillBonus ELSE 0)
               + (IF p.position = "QB" THEN QuarterbackBonus ELSE 0)
               + (IF \E k \in 1..Len(PopularPlayers) :
                        /\ query_lower = PopularPlayers[k][1]
                        /\ Contains(name_lower, PopularPlayers[k][2])
                  THEN PopularBonus ELSE 0)
        id == IF p.espn_id # "" /\ AllDigits(p.espn_id)
              THEN DigitsVal(p.espn_id) ELSE 0
    IN [whole |-> score + rel + (id \div Scale), part |-> id % Scale]

\* the scores process.extract computes for a directory
Scores(q, dir, wr) ==
    LET table == wr.player[QueryNormalized(q)]
    IN [i \in 1..Len(dir) |-> table[Normalize(dir[i].display_name)]] \o << >>

\* matched_players before the sort: the candidates above the threshold, in the
\* order process.extract returned them
MatchedPlayers(q, limit, dir, wr) ==
    LET sc == Scores(q, dir, wr)
        Relevant(i) == sc[i] > PlayerScoreThreshold
    IN SelectSeq(Extract(sc, limit), Relevant)

\* list.sort(key=relevance_score, reverse=True): stable, best first
KeyGreater(a, b) ==
    a.whole > b.whole \/ (a.whole = b.whole /\ a.part > b.part)

SortRank(m, key, r) ==
    Cardinality({j \in DOMAIN m :
                    KeyGreater(key[j], key[r]) \/ (key[j] = key[r] /\ j < r)}) + 1

SortByRelevance(m, q, dir, wr) ==
    LET sc == Scores(q, dir, wr)
        query_lower == Lower(CorrectTypo(q))
        key == [r \in DOMAIN m |->
                   relevance_score(dir[m[r]], sc[m[r]], query_lower)] \o << >>
        rank == [r \in DOMAIN m |-> SortRank(m, key, r)] \o << >>
    IN [r \in DOMAIN m |-> m[CHOOSE j \in DOMAIN m : rank[j] = r]] \o << >>

\* search_player: the indices of the matched players, best first
search_player(q, limit, dir, wr) ==
    IF dir = << >> THEN << >>
    ELSE SortByRelevance(MatchedPlayers(q, limit, dir, wr), q, dir, wr)

\* search_team: the index of the team, 0 for None
TeamWithAbbr(q, k) ==
    FirstIndex(k, Len(Teams), LAMBDA n : Lower(Teams[n].abbr) = Lower(q))

\* variant: a score equal to the threshold is accepted
search_team_at_threshold(q, wr) ==
    IF TeamWithAbbr(q, 1) # 0 THEN TeamWithAbbr(q, 1)
    ELSE IF wr.team[q].score >= TeamScoreThreshold THEN wr.team[q].index
    ELSE 0

search_team(q, wr) ==
    IF TeamWithAbbr(q, 1) # 0 THEN TeamWithAbbr(q, 1)
    ELSE IF wr.team[q].score > TeamScoreThreshold THEN wr.team[q].index
    ELSE 0

IdentifyLimit == 20

\* identify_entity
identify_entity(q, dir, wr) ==
    IF search_team(q, wr) # 0 THEN <<"team", search_team(q, wr)>>
    ELSE LET found == search_player(q, IdentifyLimit, dir, wr)
         IN IF found # << >> THEN <<"player", found[1]>> ELSE <<"None", 0>>

\* a players directory is a selection of PlayerPool, in its order; the full
\* selection is also taken followed by a bench of IdentifyLimit players of one
\* name, which fills every slot of process.extract when it scores highest
PlayerPool ==
    << [display_name |-> "Patrick Mahomes", position |-> "QB",
        status |-> "ACT", espn_id |-> "3139477"],
       [display_name |-> "Josh Allen", position |-> "LB",
        status |-> "ACT", espn_id |-> "3115293"],
       [display_name |-> "Josh Allen", position |-> "QB",
        status |-> "ACT", espn_id |-> "3918298"],
       [display_name |-> "Keenan Allen", position |-> "WR",
        status |-> "Active", espn_id |-> "15818"],
       [display_name |-> "A.J. Brown", position |-> "WR",
        status |-> "", espn_id |-> ""] >>

BenchPlayer(k) ==
    [display_name |-> "Zach Allen", position |-> "DE", status |-> "ACT",
     espn_id |-> IntToStr(4000000 + k)]

Bench == [k \in 1..IdentifyLimit |-> BenchPlayer(k)]

Selection(chosen) ==
    LET all == [i \in 1..MaxPlayers |-> i]
        picked == SelectSeq(all, LAMBDA i : i \in chosen)
    IN [r \in DOMAIN picked |-> PlayerPool[picked[r]]]

Directories ==
    {Selection(chosen) : chosen \in SUBSET (1..MaxPlayers)}
        \cup {Selection(1..MaxPlayers) \o Bench}

\* the WRatio values the model draws from: at the player threshold, just
\* above it, and high; at the team threshold and just above it
PlayerScores == {60, 61, 95}
TeamScores == {70, 71}

NormalizedNames(dir) == {Normalize(dir[i].display_name) : i \in DOMAIN dir}

\* the score tables for a set of texts and a directory
ScoreTablesOver(texts, dir, scores) ==
    [team : [texts -> [index : {16}, score : TeamScores]],
     player : [{QueryNormalized(q) : q \in texts} ->
                  [NormalizedNames(dir) -> scores]]]

ScoreTables(texts, dir) == ScoreTablesOver(texts, dir, PlayerScores)

SearchQueries == {"mahomes", "allen", "josh", "Josh Allen", "kc", "A.J. Brown"}

\* identify_entity, step 1: search_team
IeTeam ==
    /\ pc = "ie_team"
    /\ IF search_team(query, wratio) # 0
       THEN /\ entity' = <<"team", search_team(query, wratio)>>
            /\ pc' = "ie_done"
       ELSE /\ pc' = "ie_extract"
            /\ UNCHANGED entity
    /\ UNCHANGED <<matched, players, wratio>>
    /\ UNCHANGED <<games, headers, aggVars, gi, result, thrVars, parseVars, mainVars, careerVars>>

\* search_player up to the threshold filter
IeExtract ==
    /\ pc = "ie_extract"
    /\ IF players = << >>
       THEN /\ entity' = <<"None", 0>>
            /\ pc' = "ie_done"
            /\ UNCHANGED matched
       ELSE /\ matched' = MatchedPlayers(query, IdentifyLimit, players, wratio)
            /\ pc' = "ie_sort"
            /\ UNCHANGED entity
    /\ UNCHANGED <<players, wratio>>
    /\ UNCHANGED <<games, headers, aggVars, gi, result, thrVars, parseVars, mainVars, careerVars>>

\* the sort of search_player and the return of identify_entity
IeSort ==
    /\ pc = "ie_sort"
    /\ matched' = SortByRelevance(matched, query, players, wratio)
    /\ entity' = IF matched' # << >> THEN <<"player", matched'[1]>>
                 ELSE <<"None", 0>>
    /\ pc' = "ie_done"
    /\ UNCHANGED <<players, wratio>>
    /\ UNCHANGED <<games, headers, aggVars, gi, result, thrVars, parseVars, mainVars, careerVars>>

NextSearch == IeTeam \/ IeExtract \/ IeSort

InitSearch ==
    /\ pc = "ie_team"
    /\ query \in SearchQueries
    /\ players \in Directories
    /\ wratio \in ScoreTables({query}, players)
    /\ matched = << >>
    /\ entity = <<"None", 0>>
    /\ intent = NoIntent
    /\ now = NoClock
    /\ ParseIdle
    /\ MainIdle
    /\ CareerIdle

SpecSearch == InitSearch /\ [][NextSearch]_vars

\* the candidates of the directory whose score is above the player threshold
Candidates ==
    {i \in DOMAIN players :
        Scores(query, players, wratio)[i] > PlayerScoreThreshold}

\* C14: identify_entity tries the team directory first: it returns the team
\* when the text equals a team abbreviation (whatever the case) or the best
\* fuzzy match against the full team names scores above the threshold 70,
\* whatever the player candidates are; otherwise it returns the top-ranked
\* player when at least one player candidate scores above 60; otherwise it
\* returns (None, None).
C14_TeamFirst ==
    pc = "ie_done" =>
        LET abbrs == {k \in 1..Len(Teams) : Lower(Teams[k].abbr) = Lower(query)}
        IN IF abbrs # {}
           THEN entity[1] = "team" /\ entity[2] \in abbrs
           ELSE IF wratio.team[query].score > 70
           THEN entity = <<"team", wratio.team[query].index>>
           ELSE IF Candidates # {}
           THEN /\ entity[1] = "player"
                /\ entity[2] \in Candidates
                /\ matched # << >> /\ entity[2] = matched[1]
           ELSE entity = <<"None", 0>>

\* a team was returned although a player candidate scored above 60
C14_Witness ==
    /\ pc = "ie_done"
    /\ entity[1] = "team"
    /\ wratio.team[query].score = 71
    /\ Candidates # {}

(***************************************************************************)
(* The dispatcher (nfl_stats/main.py, process_query).  The model starts    *)
(* when parse_query has returned; provider answers are inputs.  A branch   *)
(* is the block of process_query that answers the query, with whether it   *)
(* called aggregate_stats.                                                 *)
(***************************************************************************)
\* the k-th rule of the pipeline after the year rule
RuleAt(k, q, it) ==
    CASE k = 1 -> WeekRule(q, it)
      [] k = 2 -> PlayoffsRule(q, it)
      [] k = 3 -> SuperBowlRule(q, it)
      [] k = 4 -> RookieRule(q, it)
      [] k = 5 -> CareerRule(q, it)
      [] k = 6 -> DraftRule(q, it)
      [] k = 7 -> BioRule(q, it)
      [] k = 8 -> InjuryRule(q, it)
      [] k = 9 -> TrendingRule(q, it)
      [] k = 10 -> FantasyRule(q, it)
      [] k = 11 -> NicknameRule(q, it)
      [] k = 12 -> OfficialRule(q, it)
      [] k = 13 -> FuzzyRule(q, it)
      [] k = 14 -> DepthRule(q, it)
      [] k = 15 -> RosterRule(q, it)
      [] k = 16 -> AwardsRule(q, it)
      [] k = 17 -> GameTypeRule(q, it)
      [] k = 18 -> MonthRule(q, it)
      [] k = 19 -> PrimeTimeRule(q, it)
      [] k = 20 -> QuarterRule(q, it)
      [] k = 21 -> AggregationRule(q, it)
      [] k = 22 -> LongestRule(q, it)
      [] k = 23 -> ThresholdRule(q, it)
      [] k = 24 -> LeadersOrComparisonRule(q, it)
      [] k = 25 -> MultiPlayerRule(q, it)
      [] k = 26 -> CleanupRule(q, it)

\* the rules lo..hi applied in their order
RECURSIVE ApplyRules(_, _, _)
ApplyRules(r, lo, hi) ==
    IF Len(r.q) < 0 THEN r
    ELSE IF lo = hi THEN RuleAt(lo, r.q, r.it)
    ELSE ApplyRules(ApplyRules(r, lo, (lo + hi) \div 2),
                    ((lo + hi) \div 2) + 1, hi)

\* parse_query as one function of the text
parse_query(q, clock) ==
    ApplyRules(YearRule(q, DefaultIntent(q), clock), 1, 26).it

GeneralKeywords ==
    {"news", "injury", "injuries", "contract", "trade", "rumor", "report",
     "salary"}

\* the blocks that return before entity resolution, "None" when none does
PreEntityBranch(full_query, it) ==
    IF \E k \in GeneralKeywords : Contains(Lower(full_query), k)
    THEN "web_search"
    ELSE IF it.is_league_leaders /\ it.stat_category # "None"
    THEN "league_leaders"
    ELSE IF it.is_comparison /\ Len(it.comparison_players) >= 2
    THEN "comparison"
    ELSE IF it.multi_player # "None" THEN "multi_player"
    ELSE IF it.is_trending THEN "trending"
    ELSE IF it.is_roster THEN "roster"
    ELSE "None"

\* variant: the week is never looked at
PlayerBranchNoWeek(it) ==
    IF it.is_longest THEN "longest"
    ELSE IF it.quarter_filter \notin {-1, 0} THEN "quarter"
    ELSE IF it.is_rookie THEN "rookie"
    ELSE IF it.is_career THEN "career"
    ELSE IF it.threshold.stat # "None" THEN "threshold"
    ELSE IF it.is_superbowl THEN "super_bowl"
    ELSE IF it.is_playoffs THEN "playoffs"
    ELSE "default"

\* "3. Route Logic" for a player
PlayerBranch(it) ==
    IF it.is_longest THEN "longest"
    ELSE IF it.quarter_filter \notin {-1, 0} THEN "quarter"
    ELSE IF it.is_rookie THEN "rookie"
    ELSE IF it.is_career THEN "career"
    ELSE IF it.threshold.stat # "None" THEN "threshold"
    ELSE IF it.is_superbowl THEN "super_bowl"
    ELSE IF it.is_playoffs THEN "playoffs"
    ELSE IF it.week \notin {-1, 0} THEN "single_week"
    ELSE "default"

\* the block that answers once identify_entity has returned
EntityBranch(it, ent) ==
    IF ent[1] = "None"
    THEN (IF it.is_awards THEN "league_awards"
          ELSE IF it.is_draft THEN "draft_picks"
          ELSE "not_found")
    ELSE IF it.is_draft /\ ent[1] = "player" THEN "player_draft"
    ELSE IF it.is_bio /\ ent[1] = "player" THEN "bio"
    ELSE IF it.is_awards /\ ent[1] = "player" THEN "player_awards"
    ELSE IF it.is_injury /\ ent[1] = "player" THEN "injury"
    ELSE IF it.is_fantasy_points /\ ent[1] = "player" THEN "fantasy_points"
    ELSE IF ent[1] = "player" THEN PlayerBranch(it)
    ELSE "team"

\* the blocks that hold a call of aggregate_stats
AggregatingBranches ==
    {"comparison", "multi_player", "fantasy_points", "rookie", "career",
     "threshold", "super_bowl", "playoffs", "default"}

\* the answers a block can end with: an aggregating block calls the
\* aggregator when the provider returned games
Answers(path) ==
    {[path |-> path, aggregated |-> a] :
        a \in IF path \in AggregatingBranches THEN BOOLEAN ELSE {FALSE}}

ComparisonLimit == 10

\* variant: the best candidate of the re-run replaces the second player
BetterMatchAny(first, second, alt, dir) ==
    IF dir[first].position # dir[second].position /\ alt # << >>
    THEN alt[1] ELSE second

\* the second player after "try to find better matches"
BetterMatch(first, second, alt, dir) ==
    LET same == {r \in DOMAIN alt : dir[alt[r]].position = dir[first].position}
    IN IF dir[first].position # dir[second].position /\ same # {}
       THEN alt[CHOOSE r \in same : \A o \in same : r <= o]
       ELSE second

MainVarsIdle == UNCHANGED <<games, headers, aggVars, gi, result, thrVars, parseVars,
                            players, wratio, matched, careerVars>>

\* general keywords, league leaders, and the heads of the blocks before
\* "2. Identify Entity"
PqStart ==
    /\ pc = "pq_start"
    /\ LET path == PreEntityBranch(query, intent)
       IN IF path = "None"
          THEN pc' = "pq_identify" /\ UNCHANGED branch
          ELSE IF path = "comparison"
          THEN pc' = "pq_compare" /\ UNCHANGED branch
          ELSE pc' = "pq_done" /\ branch' \in Answers(path)
    /\ UNCHANGED <<entity, names, resolved>>
    /\ MainVarsIdle

\* "Identify both players"
PqCompare ==
    /\ pc = "pq_compare"
    /\ names' = SubSeq(intent.comparison_players, 1, 2)
    /\ LET first == identify_entity(names'[1], players, wratio)
           second == identify_entity(names'[2], players, wratio)
       IN IF first[1] # "player"
          THEN /\ resolved' = << >>
               /\ branch' = [path |-> "could_not_find_player", aggregated |-> FALSE]
               /\ pc' = "pq_done"
          ELSE IF second[1] # "player"
          THEN /\ resolved' = <<first[2]>>
               /\ branch' = [path |-> "could_not_find_player", aggregated |-> FALSE]
               /\ pc' = "pq_done"
          ELSE /\ resolved' = <<first[2], second[2]>>
               /\ pc' = "pq_better_match"
               /\ UNCHANGED branch
    /\ UNCHANGED entity
    /\ MainVarsIdle

\* "If players have different positions, try to find better matches", then
\* the comparison itself
PqBetterMatch ==
    /\ pc = "pq_better_match"
    /\ resolved' = <<resolved[1],
                     BetterMatch(resolved[1], resolved[2],
                                 search_player(names[2], ComparisonLimit,
                                               players, wratio),
                                 players)>>
    /\ branch' \in Answers("comparison")
    /\ pc' = "pq_done"
    /\ UNCHANGED <<entity, names>>
    /\ MainVarsIdle

\* "2. Identify Entity"
PqIdentify ==
    /\ pc = "pq_identify"
    /\ entity' = identify_entity(intent.clean_query, players, wratio)
    /\ pc' = "pq_route"
    /\ UNCHANGED <<names, resolved, branch>>
    /\ MainVarsIdle

\* everything after identify_entity
PqRoute ==
    /\ pc = "pq_route"
    /\ branch' \in Answers(EntityBranch(intent, entity))
    /\ pc' = "pq_done"
    /\ UNCHANGED <<entity, names, resolved>>
    /\ MainVarsIdle

NextMain == PqStart \/ PqCompare \/ PqBetterMatch \/ PqIdentify \/ PqRoute

MainQueries ==
    {"josh allen 2023 week 5", "josh allen week 0", "mahomes week 25",
     "mahomes fantasy points week 5", "josh allen longest pass week 5",
     "mahomes 4th quarter week 5", "josh allen height week 5",
     "mahomes draft week 5", "mahomes mvp week 5", "mahomes hurt week 5", "kc",
     "mahomes rookie year week 5", "mahomes career week 5",
     "mahomes games with 300+ yards week 5", "mahomes playoffs week 5",
     "mahomes super bowl week 5", "mahomes", "josh allen news",
     "top 5 rushing yards leaders", "trending players", "2024 chiefs roster",
     "cheifs receivers", "who won mvp in 2022", "first round draft picks",
     "mahomes vs allen", "allen vs mahomes"}

\* with the bench first, equal scores fill process.extract with bench players
MainDirectories ==
    {<< >>, Selection(1..MaxPlayers), Selection(1..MaxPlayers) \o Bench,
     Bench \o Selection(1..MaxPlayers)}

MainScores == {60, 95}

\* the texts process_query hands to the resolver
ResolveTexts(it) ==
    IF it.is_comparison /\ Len(it.comparison_players) >= 2
    THEN {it.comparison_players[1], it.comparison_players[2]}
    ELSE {it.clean_query}

InitMain ==
    /\ pc = "pq_start"
    /\ query \in MainQueries
    /\ now = [year |-> 2026, month |-> 9]
    /\ intent = parse_query(query, now)
    /\ players \in MainDirectories
    /\ wratio \in ScoreTablesOver(ResolveTexts(intent), players, MainScores)
    /\ matched = << >>
    /\ entity = <<"None", 0>>
    /\ ParseIdle
    /\ MainIdle
    /\ CareerIdle

SpecMain == InitMain /\ [][NextMain]_vars

\* the disambiguation rule, for the first player, the second player as first
\* resolved, and the candidates of the re-run, best first
BetterMatchRule(first, second, alt) ==
    LET same == {r \in DOMAIN alt :
                    players[alt[r]].position = players[first].position}
    IN /\ resolved[1] = first
       /\ IF players[first].position # players[second].position /\ same # {}
          THEN \E r \in same : /\ resolved[2] = alt[r]
                               /\ \A o \in same : r <= o
          ELSE resolved[2] = second
       /\ \/ players[resolved[1]].position = players[resolved[2]].position
          \/ same = {}

\* C16: in a two-player comparison, if the two resolved players have
\* different positions, resolution is re-run on the second name and the
\* second player is replaced by the highest-ranked candidate that shares the
\* first player's position; if no returned candidate has that position the
\* originally resolved second player is kept.  Afterwards both players share
\* a position or no candidate of the re-run has the first player's position.
C16_BetterMatch ==
    (pc = "pq_done" /\ branch.path = "comparison") =>
        BetterMatchRule(identify_entity(names[1], players, wratio)[2],
                        identify_entity(names[2], players, wratio)[2],
                        search_player(names[2], 10, players, wratio))

\* the second player was replaced by a lower-ranked candidate of the first
\* player's position
C16_Witness ==
    /\ pc = "pq_done"
    /\ branch.path = "comparison"
    /\ resolved[2] # identify_entity(names[2], players, wratio)[2]
    /\ resolved[2] # search_player(names[2], 10, players, wratio)[1]
    /\ players[resolved[1]].position = players[resolved[2]].position

\* the parse of "josh allen 2023 week 5"
WeekFiveParsed ==
    query = "josh allen 2023 week 5" =>
        /\ intent.season = "2023"
        /\ intent.week = 5
        /\ intent.season_type = 2
        /\ intent.clean_query = "josh allen"

\* none of the rookie, career, threshold, Super Bowl or playoff signals
NoSeasonSignal ==
    /\ ~intent.is_rookie
    /\ ~intent.is_career
    /\ intent.threshold.stat = "None"
    /\ ~intent.is_superbowl
    /\ ~intent.is_playoffs

\* none of the signals answered before the week is looked at
NoEarlierSignal ==
    /\ ~intent.is_draft
    /\ ~intent.is_bio
    /\ ~intent.is_awards
    /\ ~intent.is_injury
    /\ ~intent.is_fantasy_points
    /\ ~intent.is_longest
    /\ intent.quarter_filter = -1

SingleWeek == [path |-> "single_week", aggregated |-> FALSE]

QuarterbackHeaders ==
    <<"Cmp", "Att", "Yds", "Cmp%", "Avg", "TD", "INT", "Lng", "Sack", "Rate",
      "QBR", "Rush", "RYds", "RAvg", "RTD", "RLng">>

RunningBackHeaders ==
    <<"Rush", "Yds", "Avg", "TD", "Lng", "Rec", "Tgt", "Yds", "Avg", "TD", "Lng",
      "Fum", "Lost">>

ReceiverHeaders == <<"Rec", "Tgt", "Yds", "Avg", "TD", "Lng", "Fum", "Lost">>

DefenseHeaders ==
    <<"Tot", "Solo", "Ast", "Sack", "FF", "FR", "Yds", "INT", "Yds", "Avg", "TD",
      "Lng", "PD", "Stuff", "Yds", "KB">>

GenericHeaders == <<"Stat1", "Stat2", "Stat3", "Stat4", "Stat5">>

DefensePositions == {"lb", "de", "dt", "cb", "s", "db"}

get_headers_for_position(p) ==
    LET pos == Lower(p)
    IN IF Contains(pos, "quarterback") \/ pos = "qb" THEN QuarterbackHeaders
       ELSE IF Contains(pos, "running") \/ Contains(pos, "back") \/ pos = "rb"
       THEN RunningBackHeaders
       ELSE IF \/ Contains(pos, "receiver") \/ Contains(pos, "tight")
               \/ pos = "wr" \/ pos = "te"
       THEN ReceiverHeaders
       ELSE IF pos \in DefensePositions THEN DefenseHeaders
       ELSE GenericHeaders

\* the season-type filter on the display name
SeasonTypeWanted(displayName, season_type) ==
    LET name == Lower(displayName)
    IN /\ season_type = 2 => Contains(name, "regular")
       /\ season_type = 3 =>
              Contains(name, "postseason") \/ Contains(name, "playoff")

\* the pairs <<season type, category>> the loops stop at: a category with
\* events under a wanted season type
CategoriesWithEvents(data, season_type) ==
    {sc \in UNION {{<<st, c>> : c \in 1..Len(data.seasonTypes[st].categories)} :
                      st \in 1..Len(data.seasonTypes)} :
        /\ SeasonTypeWanted(data.seasonTypes[sc[1]].displayName, season_type)
        /\ data.seasonTypes[sc[1]].categories[sc[2]].events # << >>}

FirstCategory(data, found) ==
    LET sc == CHOOSE a \in found :
                  \A b \in found : a[1] < b[1] \/ (a[1] = b[1] /\ a[2] <= b[2])
    IN data.seasonTypes[sc[1]].categories[sc[2]]

\* 'labels', else 'names', else the static table
CategoryHeaders(category, p) ==
    IF category.has_labels THEN category.labels
    ELSE IF category.has_names THEN category.names
    ELSE get_headers_for_position(p)

process_player_gamelog(data, season_type, p) ==
    IF ~data.has_season_types THEN NoGamelog
    ELSE LET found == CategoriesWithEvents(data, season_type)
         IN IF found = {}
            THEN [empty |-> FALSE, headers |-> << >>, games |-> << >>]
            ELSE [empty |-> FALSE,
                  headers |-> CategoryHeaders(FirstCategory(data, found), p),
                  games |-> FirstCategory(data, found).events]

(***************************************************************************)
(* The career block of process_query (main.py): one provider call per      *)
(* season of the player's career, then one aggregation.  The call of       *)
(* aggregate_stats changes no state of the block; the model keeps its      *)
(* arguments, all_games and last_headers, and the outcome "career_table".  *)
(***************************************************************************)
\* the categories a provider answer is made of
LabelledCategory ==
    [has_labels |-> TRUE, labels |-> <<"Yds", "TD">>, has_names |-> TRUE,
     names |-> <<"yards", "touchdowns">>, events |-> << <<"12", "1">> >>]

NamedCategory ==
    [has_labels |-> FALSE, labels |-> << >>, has_names |-> TRUE,
     names |-> <<"yards", "touchdowns">>, events |-> << <<"1,200", "x">> >>]

BareCategory ==
    [has_labels |-> FALSE, labels |-> << >>, has_names |-> FALSE,
     names |-> << >>, events |-> << <<"45", "2">>, <<"--", "3">> >>]

EmptyLabelsCategory ==
    [has_labels |-> TRUE, labels |-> << >>, has_names |-> FALSE,
     names |-> << >>, events |-> << <<"3", "0">> >>]

NoEventsCategory ==
    [has_labels |-> TRUE, labels |-> <<"Yds", "TD">>, has_names |-> FALSE,
     names |-> << >>, events |-> << >>]

RegularSeason(categories) ==
    [displayName |-> "2023 Regular Season", categories |-> categories]

Postseason(categories) ==
    [displayName |-> "2023 Postseason", categories |-> categories]

\* {} or an answer without 'seasonTypes'; a season without games; the
\* regular season after the postseason; each shape of the header keys
ProviderAnswers ==
    { [has_season_types |-> FALSE, seasonTypes |-> << >>],
      [has_season_types |-> TRUE,
       seasonTypes |-> <<Postseason(<<LabelledCategory>>)>>],
      [has_season_types |-> TRUE,
       seasonTypes |-> <<Postseason(<<BareCategory>>),
                         RegularSeason(<<NoEventsCategory, LabelledCategory>>)>>],
      [has_season_types |-> TRUE,
       seasonTypes |-> <<RegularSeason(<<NamedCategory>>)>>],
      [has_season_types |-> TRUE,
       seasonTypes |-> <<RegularSeason(<<BareCategory>>)>>],
      [has_season_types |-> TRUE,
       seasonTypes |-> <<RegularSeason(<<EmptyLabelsCategory>>)>>] }

\* the requested season: an earlier one and the current one
CareerSeasons == {2024, 2025}

\* None, a second-year player, a rookie of 2025, and a player drafted for 2026
RookieSeasons == {0, 2024, 2025, 2026}

CareerPositions == {"QB", "RB", "WR", "LB", "K"}

\* process_player_gamelog over the answers and the positions of the model
GamelogOf ==
    [answer \in ProviderAnswers |->
        [p \in CareerPositions |-> process_player_gamelog(answer, 2, p)]]

CareerSpan == 25

\* range(start_year, current_year + 1) as strings
YearsThrough(start_year, current_year) ==
    [i \in 1..(IF current_year < start_year THEN 0
               ELSE current_year - start_year + 1) |->
        IntToStr(start_year + i - 1)]

\* YearsToCheck that leaves the current season out
YearsToCheckBeforeCurrent(rookie_year, current_year) ==
    YearsThrough(IF rookie_year # 0 THEN rookie_year
                 ELSE current_year - CareerSpan, current_year - 1)

\* years_to_check, from the rookie season or from 25 seasons back
YearsToCheck(rookie_year, current_year) ==
    YearsThrough(IF rookie_year # 0 THEN rookie_year
                 ELSE current_year - CareerSpan, current_year)

\* the provider's answer for a season
Answer(check_year) == provider[(DigitsVal(check_year) % 2) + 1]

\* the span, and the status line that reads years_to_check[0] and [-1]
CareerStart ==
    /\ pc = "career_start"
    /\ LET years == YearsToCheck(rookie_season, season)
       IN /\ years_to_check' = years
          /\ IF use_spinner /\ years = << >>
             THEN pc' = "career_done" /\ outcome' = "IndexError"
             ELSE pc' = "career_loop" /\ UNCHANGED outcome
    /\ UNCHANGED <<games, headers, aggVars, gi, result, thrVars, parseVars,
                   searchVars, mainVars, season, rookie_season, use_spinner,
                   provider, calls, outstanding, gamelog, all_games,
                   last_headers>>

\* "for check_year in years_to_check": the request for the next season
CareerCall ==
    /\ pc = "career_loop"
    /\ outstanding = 0
    /\ Len(calls) < Len(years_to_check)
    /\ calls' = Append(calls, years_to_check[Len(calls) + 1])
    /\ outstanding' = outstanding + 1
    /\ UNCHANGED <<pc, games, headers, aggVars, gi, result, thrVars, parseVars,
                   searchVars, mainVars, season, rookie_season, use_spinner,
                   provider, years_to_check, gamelog, all_games, last_headers,
                   outcome>>

\* the answer to the request, and the rest of the loop body
CareerReturn ==
    /\ pc = "career_loop"
    /\ outstanding > 0
    /\ LET log == GamelogOf[Answer(calls[Len(calls)])][position]
       IN /\ gamelog' = log
          /\ IF log.games # << >>
             THEN /\ last_headers' = IF log.headers # << >> THEN log.headers
                                     ELSE last_headers
                  /\ all_games' = all_games \o log.games
             ELSE UNCHANGED <<last_headers, all_games>>
    /\ outstanding' = outstanding - 1
    /\ UNCHANGED <<pc, games, headers, aggVars, gi, result, thrVars, parseVars,
                   searchVars, mainVars, season, rookie_season, use_spinner,
                   provider, years_to_check, calls, outcome>>

\* after the loop: the table of the aggregation, or the message
CareerFinish ==
    /\ pc = "career_loop"
    /\ outstanding = 0
    /\ Len(calls) = Len(years_to_check)
    /\ IF all_games # << >>
       THEN LET hs == IF last_headers = << >>
                      THEN get_headers_for_position(position)
                      ELSE last_headers
            IN /\ last_headers' = hs
               /\ outcome' = "career_table"
       ELSE /\ outcome' = "no_career_data"
            /\ UNCHANGED last_headers
    /\ pc' = "career_done"
    /\ UNCHANGED <<games, headers, aggVars, gi, result, thrVars, parseVars,
                   searchVars, mainVars, season, rookie_season, use_spinner,
                   provider, years_to_check, calls, outstanding, gamelog,
                   all_games>>

NextCareer == CareerStart \/ CareerCall \/ CareerReturn \/ CareerFinish

InitCareer ==
    /\ pc = "career_start"
    /\ season \in CareerSeasons
    /\ rookie_season \in RookieSeasons
    /\ use_spinner \in BOOLEAN
    /\ provider \in [1..2 -> ProviderAnswers]
    /\ position \in CareerPositions
    /\ years_to_check = << >>
    /\ calls = << >>
    /\ outstanding = 0
    /\ gamelog = NoGamelog
    /\ all_games = << >>
    /\ last_headers = << >>
    /\ outcome = "None"
    /\ games = << >>
    /\ headers = << >>
    /\ unique_headers = << >>
    /\ sums = EmptyFn
    /\ maxes = EmptyFn
    /\ counts = EmptyFn
    /\ gi = 0
    /\ result = NoResult
    /\ threshold_stat = ""
    /\ threshold_value = 0
    /\ count = 0
    /\ query = ""
    /\ intent = NoIntent
    /\ now = NoClock
    /\ SearchIdle
    /\ MainIdle

SpecCareer == InitCareer /\ [][NextCareer]_vars

\* the loop is straight-line code: a step that can be taken is taken
FairSpecCareer == SpecCareer /\ WF_vars(NextCareer)

(***************************************************************************)
(* C24: no match is not an error.  For text that triggers none of the      *)
(* rules of the pipeline, parse_query returns the default Intent (season   *)
(* None, week None, season_type Regular, every flag false or absent, no    *)
(* comparison players, no stat category, limit 10, no team context) with   *)
(* clean_query equal to the text without its surrounding blanks.           *)
(***************************************************************************)
\* no rule before the cleanup changes the text or the default Intent, and
\* the text holds no stopword and no standalone number
TriggersNoRule(q) ==
    /\ \A clock \in Clocks :
           YearRule(q, DefaultIntent(q), clock) = St(q, DefaultIntent(q))
    /\ \A k \in 1..25 : RuleAt(k, q, DefaultIntent(q)) = St(q, DefaultIntent(q))
    /\ \A n \in 1..Len(Stopwords) : ~Found(WordPattern(Stopwords[n]), q)
    /\ ~Found(RNumber, q)

C24_NoMatchIsDefault ==
    (pc = "p_done" /\ TriggersNoRule(intent.original_query)) =>
        /\ intent = [DefaultIntent(intent.original_query) EXCEPT
                         !.clean_query = Strip(intent.original_query)]
        /\ intent.season = "None" /\ intent.week = -1 /\ intent.season_type = 2
        /\ intent.comparison_players = << >> /\ intent.stat_category = "None"
        /\ intent.limit = 10 /\ intent.team_context = "None"

\* "  Mahomes " triggers nothing and comes back as "Mahomes"
C24_Witness ==
    /\ pc = "p_done"
    /\ intent.original_query = "  Mahomes "
    /\ TriggersNoRule(intent.original_query)
    /\ intent.clean_query = "Mahomes"
    /\ intent.team_context = "None"

(***************************************************************************)
(* C26: the team-context guard.  A query that is one team reference (an    *)
(* entry of the nickname table, an official full name, a team nickname or  *)
(* an abbreviation), with or without stopwords, leaves team_context unset  *)
(* and keeps the reference in clean_query; team_context is set only when   *)
(* meaningful text remains once the team is removed.                       *)
(***************************************************************************)
TeamReferences ==
    {TeamNicknames[k][1] : k \in 1..Len(TeamNicknames)}
        \cup UNION {{Lower(Teams[k].name), Lower(LastWord(Teams[k].name)),
                     Lower(Teams[k].abbr)} : k \in 1..Len(Teams)}

\* what is left of the text without its stopwords
WithoutStopwords(q) ==
    Strip(RemoveWords(StopwordsCheck, 1, Len(StopwordsCheck), Lower(q)))

C26_TeamContextGuard ==
    (pc = "p_done" /\ WithoutStopwords(intent.original_query) \in TeamReferences) =>
        /\ intent.team_context = "None"
        /\ Contains(Lower(intent.clean_query),
                    WithoutStopwords(intent.original_query))

(***************************************************************************)
(* C30: the typo and nickname correction of search_player is idempotent    *)
(* and stable on correct names: a text that already holds the corrected    *)
(* form of an entry (such as "josh allen") is left as it is, and           *)
(* correcting a corrected text changes nothing.                            *)
(***************************************************************************)
\* the text holds the corrected form of some entry of the table
HoldsCorrectedForm(q) ==
    \E k \in 1..Len(TypoMap) : Contains(Strip(Lower(q)), TypoMap[k][2])

C30_TypoCorrectionIdempotent ==
    pc \in {"ie_sort", "ie_done"} /\ matched # << >> =>
        /\ CorrectTypo(CorrectTypo(query)) = CorrectTypo(query)
        /\ HoldsCorrectedForm(query) => Lower(CorrectTypo(query)) = Lower(query)

(***************************************************************************)
(* C27: the popularity override.  When the query is a key of the           *)
(* popularity table (lamar, josh, hurts, mahomes, allen, burrow, jackson,  *)
(* kelce, brady, rice), the relevance score of every surviving candidate   *)
(* whose name holds the expected fragment is the fuzzy score plus the      *)
(* prefix, status and position bonuses plus the id tiebreak, plus 100.     *)
(***************************************************************************)
\* the whole part of the relevance score without the popularity term
WithoutPopularity(p, score, query_lower) ==
    LET name_lower == Lower(p.display_name)
        id == IF p.espn_id # "" /\ AllDigits(p.espn_id)
              THEN DigitsVal(p.espn_id) ELSE 0
    IN score
       + (IF StartsWith(name_lower, query_lower) THEN StartBonus
          ELSE IF Contains(name_lower, query_lower) THEN ContainsBonus ELSE 0)
       + (IF Lower(p.status) = "active" THEN ActiveBonus
          ELSE IF p.status # "" THEN StatusBonus ELSE 0)
       + (IF p.position \in SkillPositions THEN SkillBonus ELSE 0)
       + (IF p.position = "QB" THEN QuarterbackBonus ELSE 0)
       + (id \div Scale)

C27_PopularityBonus ==
    pc = "ie_done" =>
        \A k \in 1..Len(PopularPlayers) :
            query = PopularPlayers[k][1] =>
                \A r \in DOMAIN matched :
                    LET p == players[matched[r]]
                        score == Scores(query, players, wratio)[matched[r]]
                        query_lower == Lower(CorrectTypo(query))
                    IN Contains(Lower(p.display_name), PopularPlayers[k][2]) =>
                           relevance_score(p, score, query_lower).whole
                               = WithoutPopularity(p, score, query_lower) + 100

(***************************************************************************)
(* C21: a career query for a resolved player never ends in a raw           *)
(* exception: whatever the requested season, the rookie season (also one   *)
(* later than the requested season, which empties the year range) and the  *)
(* provider's answers, process_query shows the career aggregation or       *)
(* reports that no career data was found.                                  *)
(***************************************************************************)
C21_CareerNeverRaises ==
    pc = "career_done" => outcome \in {"career_table", "no_career_data"}

(***************************************************************************)
(* C22: the header fallback of process_player_gamelog: when the category   *)
(* gives no usable headers (no list, or an empty one) the returned headers *)
(* are the static table of the player's position, so a result with a game  *)
(* never has an empty header list.                                         *)
(***************************************************************************)
\* the static table by position: QB, RB, WR/TE, defence, else generic
StaticTable(p) ==
    IF p = "QB" THEN QuarterbackHeaders
    ELSE IF p = "RB" THEN RunningBackHeaders
    ELSE IF p \in {"WR", "TE"} THEN ReceiverHeaders
    ELSE IF p \in {"LB", "DE", "DT", "CB", "S", "DB"} THEN DefenseHeaders
    ELSE GenericHeaders

\* the last answer has been turned into a game log
Answered == pc \in {"career_loop", "career_done"} /\ outstanding = 0 /\ calls # << >>

C22_HeaderFallback ==
    Answered =>
        LET data == Answer(calls[Len(calls)])
            found == IF data.has_season_types
                     THEN CategoriesWithEvents(data, 2) ELSE {}
        IN /\ gamelog.games # << >> => gamelog.headers # << >>
           /\ found # {} =>
                  LET category == FirstCategory(data, found)
                  IN (/\ ~(category.has_labels /\ category.labels # << >>)
                      /\ ~(category.has_names /\ category.names # << >>)) =>
                         gamelog.headers = StaticTable(position)

(***************************************************************************)
(* C28: the career aggregation is a bounded sequential loop: one provider  *)
(* call per season, in ascending order, for every season from the start    *)
(* year (the rookie season, or the current season - 25 when it is unknown) *)
(* through the current season, never more than one call outstanding, the   *)
(* returned games accumulated in that order, and the loop always ends      *)
(* after the last season (at most 26 calls when the rookie season is       *)
(* unknown).                                                               *)
(***************************************************************************)
FirstSeason == IF rookie_season # 0 THEN rookie_season ELSE season - 25

SeasonCount == IF season < FirstSeason THEN 0 ELSE season - FirstSeason + 1

\* the games of the seasons number lo..hi of the career, in their order
RECURSIVE GamesOfSeasons(_, _)
GamesOfSeasons(lo, hi) ==
    IF lo > hi THEN << >>
    ELSE IF lo = hi
    THEN process_player_gamelog(Answer(IntToStr(FirstSeason + lo - 1)), 2,
                                position).games
    ELSE GamesOfSeasons(lo, (lo + hi) \div 2)
             \o GamesOfSeasons(((lo + hi) \div 2) + 1, hi)

SequentialLoop ==
    /\ outstanding \in {0, 1}
    /\ Len(calls) <= SeasonCount
    /\ rookie_season = 0 => Len(calls) <= 26
    /\ \A i \in DOMAIN calls : calls[i] = IntToStr(FirstSeason + i - 1)
    /\ all_games = GamesOfSeasons(1, Len(calls) - outstanding)
    /\ pc = "career_done" => Len(calls) = SeasonCount /\ outstanding = 0

C28_BoundedSequentialLoop == []SequentialLoop /\ <>(pc = "career_done")

\* a player without a rookie season asked for 2025: 26 calls, 2000 to 2025
C28_Witness ==
    /\ pc = "career_done"
    /\ season = 2025
    /\ rookie_season = 0
    /\ Len(calls) = 26
    /\ calls[1] = "2000"
    /\ calls[26] = "2025"
    /\ outstanding = 0
    /\ Len(all_games) >= 26
    /\ outcome = "career_table"

====
